---- MODULE Spec2Model ----
(***************************************************************************)
(* A model of forgeflow's orchestration and resilience core:               *)
(*   - PipelineExecutor.execute (src/forgeflow/pipeline/executor.py), one  *)
(*     run over the concrete connectors and sinks of its registry;         *)
(*   - CircuitBreaker (src/forgeflow/core/retry.py), shared by several     *)
(*     asyncio tasks that call through it.                                 *)
(* Every await of the source is a suspension point and is modelled as a    *)
(* call step followed by a return step.                                    *)
(***************************************************************************)
EXTENDS Integers, Sequences, FiniteSets, TLC

\* ------------------------------------------------------------------------
\* Bounds of the model
\* ------------------------------------------------------------------------
MaxSinks == 2
\* circuit breaker: tasks calling through one breaker, clock range, cap of the
\* failure counter, and ranges of the constructor's arguments
NCallers == 2
MaxTime == 3
MaxFailures == 3
MaxThreshold == 2
MaxRecovery == 2
\* retry: ranges of the RetryConfig arguments
MaxAttempts == 3
MaxMinWait == 2
MaxMaxWait == 3
MaxMultiplier == 2
\* rate limiters: ranges of the constructor arguments and of acquire's
\* argument, length of the clock
MaxRequests == 2
MaxWindow == 2
MaxTokens == 2
MaxClock == 3
\* adaptive limiter: range of the rates and of the factors, number of
\* on_success and on_error calls
MaxRate == 3
MaxFactor == 2
MaxFeedback == 3
\* memory cache: number of values, range of ttl, length of the clock
MaxCacheTime == 2
MaxValues == 2
MaxTtl == 2
\* request cache: number of calls of one run
MaxRequestCalls == 2
\* json normalizer: entries of the outer mapping of the input
MaxFields == 2

\* ------------------------------------------------------------------------
\* PipelineExecutor: registry and inputs
\* ------------------------------------------------------------------------
None == "None"

\* PipelineExecutor.CONNECTORS / TRANSFORMERS / SINKS: the type-tags registered
CONNECTORS == {"http", "rest"}
TRANSFORMERS == {"json_normalizer"}
SINKS == {"postgres", "duckdb", "file"}

\* type-tags a pipeline dict may carry: the registered ones and an unknown one
ConnectorTags == CONNECTORS \cup {"ftp"}
TransformerTags == TRANSFORMERS \cup {"xml"}
SinkTags == SINKS \cup {"kafka"}
Names == {"p1", "p2"}

SinkCfgSeqs == UNION {[1..n -> SinkTags] : n \in 0..MaxSinks}

\* exceptions: kind, the pipeline named in the message, and __cause__
NoExc == [kind |-> None, pipeline |-> None, cause |-> None]
Exc(kind) == [kind |-> kind, pipeline |-> None, cause |-> None]
\* PipelineException(f"Pipeline {name} failed: {e}") from e
PipelineFailed(n, e) == [kind |-> "PipelineException", pipeline |-> n, cause |-> e.kind]

VARIABLES
    pc,                 \* position of the run inside execute
    name, enabled,      \* pipeline["name"], pipeline.get("enabled", True)
    connectorCfg,       \* pipeline["connector"]["type"]
    transformerCfg,     \* pipeline["transformer"]["type"]
    sinkCfgs,           \* the types of pipeline["sinks"], in declaration order
    connector,          \* local `connector`: None or the constructed connector's tag
    client,             \* connector.client is not None
    transformer,        \* local `transformer`
    built,              \* the list the comprehension of line 46 is building
    sinks,              \* local `sinks`
    connection,         \* per sink index: sink.connection is not None
    raw_data,           \* what fetch returned: "dict", "list" or None
    i,                  \* index of the running for loop (writes, then closes)
    exc,                \* the exception in flight
    outcome,            \* how execute ended
    \* history of the run
    constructed,        \* indices of the sinks whose constructor returned
    fetchCalls, transformCalls, writeCalls, writeLog, written,
    connectorCloseCalls, closeCalls, closeRaised,
    stageExc,           \* what the try/except part produced, before cleanup
    failedWrite,        \* index of the sink whose write raised, or 0
    rootCause,          \* kind of the error raised inside the try block, or None
    completed,          \* line 58 was reached
    active              \* stage operations called and not yet returned

execVars == <<pc, name, enabled, connectorCfg, transformerCfg, sinkCfgs, connector,
              client, transformer, built, sinks, connection, raw_data, i, exc,
              outcome, constructed, fetchCalls, transformCalls, writeCalls,
              writeLog, written, connectorCloseCalls, closeCalls, closeRaised,
              stageExc, failedWrite, rootCause, completed, active>>

VARIABLES
    \* CircuitBreaker
    failure_threshold, recovery_timeout,    \* constructor arguments
    failure_count,      \* self._failure_count
    last_failure_time,  \* self._last_failure_time, NoTime for None
    state,              \* self._state
    now,                \* time.time()
    cpc,                \* per task: "idle", or "in_func" while awaiting func
    role,               \* per task in func: how the breaker admitted it
    besideProbe,        \* per task in func: a probe was in flight when admitted
    \* history of the breaker
    streak,             \* matching failures since the last success
    calledSince,        \* a call arrived since the last matching failure
    nextCall,           \* fate of the first call after tripping, made in time
    probeEnded,         \* the step just taken was a probe's success or failure
    callEnd,            \* the call that ended at this instant, and how
    sinceFailure        \* when func last raised an expected_exception, and the
                        \* calls rejected since (two stand for two or more)

cbVars == <<failure_threshold, recovery_timeout, failure_count, last_failure_time,
            state, now, cpc, role, besideProbe, streak, calledSince, nextCall,
            probeEnded, callEnd, sinceFailure>>

VARIABLES
    \* retry_async and its RetryConfig
    max_attempts, min_wait, max_wait, multiplier,
    retry_on,           \* the exception kinds of config.retry_on
    guarded,            \* func is breaker.call(op) of the modelled breaker
    rpc,                \* position of the task inside retry_async
    attempt,            \* the local `attempt`, tenacity's attempt_number
    waits,              \* the sleeps made so far, in order
    attemptLog,         \* outcome of each attempt made so far
    rresult             \* how retry_async ended

retryVars == <<max_attempts, min_wait, max_wait, multiplier, retry_on, guarded, rpc,
               attempt, waits, attemptLog, rresult>>

VARIABLES
    \* RateLimiter (token bucket); time.monotonic() counts ticks of
    \* 1/max_requests second and _tokens counts units of 1/time_window token,
    \* so that one tick refills one unit
    tb_max_requests, tb_time_window, tb_burst_size,
    tb_tokens,          \* _tokens
    tb_last_update,     \* _last_update
    tb_lock,            \* the task holding _lock, 0 when it is free
    tb_waiters,         \* the tasks waiting for _lock, in order
    tb_now,             \* time.monotonic()
    tpc,                \* position of each task inside acquire
    need,               \* the `tokens` argument of each task's acquire
    wakeAt,             \* when each sleeping task's sleep is over
    calledAt,           \* when each task called acquire
    slept,              \* the sleeps of each task's acquire so far
    grants,             \* the acquires that returned, in order
    tbRaised            \* the token counts of the acquire calls that raised ValueError

tbVars == <<tb_max_requests, tb_time_window, tb_burst_size, tb_tokens, tb_last_update,
            tb_lock, tb_waiters, tb_now, tpc, need, wakeAt, calledAt, slept, grants,
            tbRaised>>

VARIABLES
    \* SlidingWindowRateLimiter; time.monotonic() and time_window count ticks
    sw_max_requests, sw_time_window,
    sw_requests,        \* _requests, the timestamps kept
    sw_lock,            \* the task holding _lock, 0 when it is free
    sw_waiters,         \* the tasks waiting for _lock, in order
    sw_now,             \* time.monotonic()
    spc,                \* position of each task inside acquire
    swWakeAt,           \* when each sleeping task's sleep is over
    admitted            \* the instants of all admissions so far, in order

swVars == <<sw_max_requests, sw_time_window, sw_requests, sw_lock, sw_waiters, sw_now,
            spc, swWakeAt, admitted>>

VARIABLES
    \* AdaptiveRateLimiter; a rate is a fraction <<numerator, denominator>>
    current_rate, min_rate, max_rate,
    increase_factor,    \* a whole factor
    decrease_factor,    \* the fraction <<1, d>>
    feedbacks,          \* number of on_success and on_error calls so far
    ad_last_request,    \* _last_request
    ad_lock,            \* _lock: 0 when free, else the caller holding it
    ad_waiters,         \* callers waiting for _lock, first come first
    ad_now,             \* time.monotonic(), in seconds
    apc,                \* per caller: "idle", "waiting" (for _lock), "sleeping"
    adWakeAt,           \* per caller: the first tick at which its sleep is over
    adAdmitted,         \* the last return of acquire: its time, the time of the
                        \* return before it, the rate that acquire read and
                        \* whether the rate changed while the task slept
    scope,              \* per caller: "none", "entering" (in __aenter__) or
                        \* "inside" (in the body of `async with limiter`)
    lastExit            \* the last __aexit__: the calls it made and the rates

adVars == <<current_rate, min_rate, max_rate, increase_factor, decrease_factor, feedbacks,
            ad_last_request, ad_lock, ad_waiters, ad_now, apc, adWakeAt, adAdmitted, scope,
            lastExit>>

VARIABLES
    \* MemoryCache
    ttl, max_entries,
    cache,              \* _cache: key -> [value, timestamp]
    access_order,       \* _access_order
    mc_now,             \* time.time()
    lastSet,            \* the preceding call when it was a set, else NoSet
    roundTrip,          \* the last call when it was a get of the key just set
    lastGet,            \* the last call when it was a get: its key and result
    recency             \* the cached keys by their last successful get or set

mcVars == <<ttl, max_entries, cache, access_order, mc_now, lastSet, roundTrip, lastGet,
            recency>>

VARIABLES
    \* RequestCache over its default backend, a MemoryCache(ttl=config.ttl)
    rc_ttl,             \* config.ttl
    rc_store,           \* the backend's _cache: derived key -> [value, timestamp]
    rc_now,             \* time.time()
    rc_calls,           \* number of calls so far
    rc_last,            \* the last call: a get, its request and result, or another
    logical             \* (url, parameter mapping) -> its last set: response, time
                        \* and the parameters as they were supplied

rcVars == <<rc_ttl, rc_store, rc_now, rc_calls, rc_last, logical>>

VARIABLES
    \* DiskCache
    dc_ttl,             \* ttl
    files,              \* the file of each key in cache_dir
    dc_now,             \* time.time()
    dc_last             \* the last call: a get, the file it found and how it ended

dcVars == <<dc_ttl, files, dc_now, dc_last>>

VARIABLES
    \* a MemoryCache and a DiskCache that receive the same calls
    both                \* the last call, what each backend returned, and plain:
                        \* every value set so far is one of Values

eqVars == <<both>>

VARIABLES
    \* PipelineLoader.validate_pipeline
    pipeline,           \* the argument: the keys it has and its sinks value
    validated           \* how the call ended

vpVars == <<pipeline, validated>>

VARIABLES
    \* JsonNormalizer.transform
    jn_config,          \* self.config: flatten and timestamp_field
    jn_data,            \* the argument, as it was when transform was called
    jn_result,          \* how the call ended and the mapping it returned
    jn_object           \* the caller's object that was passed, as it is now

jnVars == <<jn_config, jn_data, jn_result, jn_object>>

VARIABLES
    \* the limiter of a resource
    policy              \* which of the three interchangeable limiters it is

liveVars == <<policy>>

vars == <<execVars, cbVars, retryVars, tbVars, swVars, adVars, mcVars, rcVars, dcVars, vpVars, jnVars, liveVars, eqVars>>

\* the variables of the other components, for the frame of each component
notExec == <<cbVars, retryVars, tbVars, swVars, adVars, mcVars, rcVars, dcVars, vpVars, jnVars, liveVars, eqVars>>
notBreaker == <<execVars, retryVars, tbVars, swVars, adVars, mcVars, rcVars, dcVars, vpVars, jnVars, liveVars, eqVars>>
\* (the breaker's variables apart: retry_async may run through the breaker)
notRetry == <<execVars, tbVars, swVars, adVars, mcVars, rcVars, dcVars, vpVars, jnVars, liveVars, eqVars>>
notTokenBucket == <<execVars, cbVars, retryVars, swVars, adVars, mcVars, rcVars, dcVars, vpVars, jnVars, liveVars, eqVars>>
notSlidingWindow == <<execVars, cbVars, retryVars, tbVars, adVars, mcVars, rcVars, dcVars, vpVars, jnVars, liveVars, eqVars>>
notAdaptive == <<execVars, cbVars, retryVars, tbVars, swVars, mcVars, rcVars, dcVars, vpVars, jnVars, liveVars, eqVars>>
notMemoryCache == <<execVars, cbVars, retryVars, tbVars, swVars, adVars, rcVars, dcVars, vpVars, jnVars, liveVars, eqVars>>
notRequestCache == <<execVars, cbVars, retryVars, tbVars, swVars, adVars, mcVars, dcVars, vpVars, jnVars, liveVars, eqVars>>
notDiskCache == <<execVars, cbVars, retryVars, tbVars, swVars, adVars, mcVars, rcVars, vpVars, jnVars, liveVars, eqVars>>
notValidate == <<execVars, cbVars, retryVars, tbVars, swVars, adVars, mcVars, rcVars, dcVars, jnVars, liveVars, eqVars>>
notNormalizer == <<execVars, cbVars, retryVars, tbVars, swVars, adVars, mcVars, rcVars, dcVars, vpVars, liveVars, eqVars>>
notPolicy == <<execVars, cbVars, retryVars, tbVars, swVars, adVars, mcVars, rcVars, dcVars, vpVars, jnVars, eqVars>>
\* (the two caches apart: the same calls go to both)
notBackends == <<execVars, cbVars, retryVars, tbVars, swVars, adVars, rcVars, vpVars, jnVars, liveVars>>

inputVars == <<name, enabled, connectorCfg, transformerCfg, sinkCfgs>>

SinkIdx == 1..Len(sinkCfgs)

Callers == 1..NCallers
NoTime == -1

NoEnd == [by |-> 0, how |-> None, role |-> None]

\* CircuitBreaker.__init__
InitCB ==
    /\ failure_threshold \in 1..MaxThreshold
    /\ recovery_timeout \in 0..MaxRecovery
    /\ failure_count = 0
    /\ last_failure_time = NoTime
    /\ state = "closed"
    /\ now = 0
    /\ cpc = [p \in Callers |-> "idle"]
    /\ role = [p \in Callers |-> None]
    /\ besideProbe = [p \in Callers |-> FALSE]
    /\ streak = 0
    /\ calledSince = FALSE
    /\ nextCall = None
    /\ probeEnded = None
    /\ callEnd = NoEnd
    /\ sinceFailure = [at |-> NoTime, rejected |-> 0]

\* the breaker of a specification that makes no call through it
CBUnused ==
    /\ InitCB
    /\ failure_threshold = 1
    /\ recovery_timeout = 0

\* the defaults of RetryConfig.__init__
DefaultMaxAttempts == 3
DefaultMinWait == 1
DefaultMaxWait == 60
DefaultMultiplier == 2
\* retry_on or (Exception,)
DefaultRetryOn == {"Exception"}

\* no exception of an attempt
NoErr == [kind |-> None, by |-> 0, rejected |-> FALSE, own |-> None]

\* the default RetryConfig of a specification that makes no retry_async call
RetryUnused ==
    /\ max_attempts = DefaultMaxAttempts /\ min_wait = DefaultMinWait
    /\ max_wait = DefaultMaxWait /\ multiplier = DefaultMultiplier
    /\ retry_on = DefaultRetryOn
    /\ guarded = FALSE
    /\ rpc = "idle"
    /\ attempt = 0
    /\ waits = <<>>
    /\ attemptLog = <<>>
    /\ rresult = [status |-> "running", error |-> NoErr]

\* a RateLimiter(1, 1) of a specification that makes no acquire call
TokenBucketUnused ==
    /\ tb_max_requests = 1 /\ tb_time_window = 1 /\ tb_burst_size = 1
    /\ tb_tokens = 1 /\ tb_last_update = 0 /\ tb_lock = 0 /\ tb_waiters = <<>>
    /\ tb_now = 0
    /\ tpc = [p \in Callers |-> "idle"]
    /\ need = [p \in Callers |-> 0]
    /\ wakeAt = [p \in Callers |-> 0]
    /\ calledAt = [p \in Callers |-> 0]
    /\ slept = [p \in Callers |-> <<>>]
    /\ grants = <<>>
    /\ tbRaised = <<>>

\* a SlidingWindowRateLimiter(1, 1) of a specification that makes no acquire call
SlidingWindowUnused ==
    /\ sw_max_requests = 1 /\ sw_time_window = 1 /\ sw_requests = <<>>
    /\ sw_lock = 0 /\ sw_waiters = <<>> /\ sw_now = 0
    /\ spc = [p \in Callers |-> "idle"]
    /\ swWakeAt = [p \in Callers |-> 0]
    /\ admitted = <<>>

\* an AdaptiveRateLimiter(1, 1, 1, 1, 1) of a specification that does not use it
NotAdmitted == [prev |-> NoTime, at |-> NoTime, rate |-> <<1, 1>>, read |-> <<1, 1>>,
                meanwhile |-> FALSE]

NoExit == [by |-> 0, exc_val |-> None, calls |-> <<>>, before |-> <<1, 1>>,
           after |-> <<1, 1>>]

AdaptiveUnused ==
    /\ current_rate = <<1, 1>> /\ min_rate = <<1, 1>> /\ max_rate = <<1, 1>>
    /\ increase_factor = 1 /\ decrease_factor = <<1, 1>>
    /\ feedbacks = 0
    /\ ad_last_request = 0 /\ ad_lock = 0 /\ ad_waiters = <<>> /\ ad_now = 0
    /\ apc = [p \in Callers |-> "idle"]
    /\ adWakeAt = [p \in Callers |-> 0]
    /\ adAdmitted = NotAdmitted
    /\ scope = [p \in Callers |-> "none"]
    /\ lastExit = NoExit

\* ttl=None, no expiration
NoTtl == -1
\* the None that get returns for a missing or expired key (values are 1, 2, ...)
Absent == 0
\* no entry of _cache
EmptyCache == [k \in {} |-> Absent]
NoSet == [key |-> None, value |-> Absent, at |-> 0, evicted |-> FALSE, replaced |-> FALSE]
NoTrip == [expected |-> Absent, got |-> Absent, age |-> 0, evicted |-> FALSE,
           replaced |-> FALSE]
NoGet == [key |-> None, got |-> Absent]

\* a MemoryCache(ttl=None, max_entries=1) of a specification that does not use it
MemoryCacheUnused ==
    /\ ttl = NoTtl /\ max_entries = 1
    /\ cache = EmptyCache /\ access_order = <<>> /\ mc_now = 0
    /\ lastSet = NoSet /\ roundTrip = NoTrip /\ lastGet = NoGet /\ recency = <<>>

NoCall == [op |-> None, url |-> None, params |-> <<>>, got |-> None, at |-> 0]

\* a RequestCache of a specification that does not use it
RequestCacheUnused ==
    /\ rc_ttl = NoTtl /\ rc_store = EmptyCache /\ rc_now = 0 /\ rc_calls = 0
    /\ rc_last = NoCall /\ logical = EmptyCache

\* no file of the key exists
NoFile == [kind |-> "missing", value |-> Absent, timestamp |-> 0]

NoDiskGet == [op |-> None, key |-> None, found |-> None, outcome |-> None,
              got |-> Absent]

\* a DiskCache of a specification that does not use it
DiskCacheUnused ==
    /\ dc_ttl = NoTtl /\ files = EmptyCache /\ dc_now = 0 /\ dc_last = NoDiskGet

NoCalls == [op |-> None, key |-> None, value |-> Absent, plain |-> TRUE,
            memory |-> [outcome |-> None, got |-> Absent],
            disk |-> [outcome |-> None, got |-> Absent]]

\* no pair of backends in a specification that does not compare them
BackendsUnused == both = NoCalls

NotValidated == [outcome |-> None, text |-> None, fields |-> <<>>]

\* a validate_pipeline of a specification that does not use it
ValidateUnused ==
    /\ pipeline = [keys |-> {}, sinks |-> [type |-> None, len |-> 0]]
    /\ validated = NotValidated

NotTransformed == [outcome |-> None, normalized |-> <<>>]

\* a JsonNormalizer of a specification that does not use it
NormalizerUnused ==
    /\ jn_config = [flatten |-> FALSE, timestamp_field |-> None]
    /\ jn_data = [type |-> None, items |-> <<>>]
    /\ jn_result = NotTransformed
    /\ jn_object = jn_data

\* a specification that is not about the choice of the limiter
PolicyUnused == policy = None

InitExec ==
    /\ BackendsUnused
    /\ PolicyUnused
    /\ NormalizerUnused
    /\ ValidateUnused
    /\ DiskCacheUnused
    /\ RequestCacheUnused
    /\ CBUnused
    /\ RetryUnused
    /\ TokenBucketUnused
    /\ SlidingWindowUnused
    /\ AdaptiveUnused
    /\ MemoryCacheUnused
    /\ pc = "start"
    /\ name \in Names
    /\ enabled \in BOOLEAN
    /\ connectorCfg \in ConnectorTags
    /\ transformerCfg \in TransformerTags
    /\ sinkCfgs \in SinkCfgSeqs
    /\ connector = None
    /\ client = FALSE
    /\ transformer = None
    /\ built = <<>>
    /\ sinks = <<>>
    /\ connection = [k \in 1..Len(sinkCfgs) |-> FALSE]
    /\ raw_data = None
    /\ i = 0
    /\ exc = NoExc
    /\ outcome = [status |-> "running", error |-> NoExc]
    /\ constructed = {}
    /\ fetchCalls = 0
    /\ transformCalls = 0
    /\ writeCalls = [k \in 1..Len(sinkCfgs) |-> 0]
    /\ writeLog = <<>>
    /\ written = {}
    /\ connectorCloseCalls = 0
    /\ closeCalls = [k \in 1..Len(sinkCfgs) |-> 0]
    /\ closeRaised = 0
    /\ stageExc = NoExc
    /\ failedWrite = 0
    /\ rootCause = None
    /\ completed = FALSE
    /\ active = {}

\* an exception raised inside the try block: control goes to `except Exception`
RaiseInTry(e) ==
    /\ exc' = e
    /\ rootCause' = e.kind
    /\ pc' = "except"

\* Start with the enabled check dropped: a disabled pipeline is run
Start_IgnoresEnabled ==
    /\ pc = "start"
    /\ pc' = "create_connector"
    /\ UNCHANGED <<notExec, inputVars, connector, client, transformer, built, sinks, connection,
                   raw_data, i, exc, outcome, constructed, fetchCalls, transformCalls,
                   writeCalls, writeLog, written, connectorCloseCalls, closeCalls,
                   closeRaised, stageExc, failedWrite, rootCause, completed, active>>

\* execute, lines 31-38: the enabled check
Start ==
    /\ pc = "start"
    /\ IF ~enabled
         THEN /\ pc' = "done"
              /\ outcome' = [status |-> "skipped", error |-> NoExc]
         ELSE /\ pc' = "create_connector"
              /\ UNCHANGED outcome
    /\ UNCHANGED <<notExec, inputVars, connector, client, transformer, built, sinks, connection,
                   raw_data, i, exc, constructed, fetchCalls, transformCalls,
                   writeCalls, writeLog, written, connectorCloseCalls, closeCalls,
                   closeRaised, stageExc, failedWrite, active,
                   rootCause, completed>>

\* line 44 and _create_connector: registry lookup, then the constructor, whose
\* validate_config raises ConnectorException on a bad config
CreateConnector ==
    /\ pc = "create_connector"
    /\ IF connectorCfg \notin CONNECTORS
         THEN /\ RaiseInTry(Exc("PipelineException"))
              /\ UNCHANGED connector
         ELSE \E ok \in BOOLEAN :
                IF ok
                  THEN /\ connector' = connectorCfg
                       /\ pc' = "create_transformer"
                       /\ UNCHANGED <<exc, rootCause>>
                  ELSE /\ RaiseInTry(Exc("ConnectorException"))
                       /\ UNCHANGED connector
    /\ UNCHANGED <<notExec, inputVars, client, transformer, built, sinks, connection, raw_data,
                   i, outcome, constructed, fetchCalls, transformCalls, writeCalls,
                   writeLog, written, connectorCloseCalls, closeCalls, closeRaised,
                   stageExc, failedWrite, active,
                   completed>>

\* CreateTransformer with a lookup that falls back to the default transformer
\* (TRANSFORMERS.get(type, JsonNormalizer)) instead of raising on an unknown tag
CreateTransformer_DefaultsUnknown ==
    /\ pc = "create_transformer"
    /\ transformer' = IF transformerCfg \in TRANSFORMERS THEN transformerCfg
                      ELSE "json_normalizer"
    /\ pc' = "create_sinks"
    /\ UNCHANGED <<notExec, inputVars, connector, client, built, sinks, connection, raw_data, i,
                   exc, outcome, constructed, fetchCalls, transformCalls, writeCalls,
                   writeLog, written, connectorCloseCalls, closeCalls, closeRaised,
                   stageExc, failedWrite, rootCause, completed, active>>

\* line 45 and _create_transformer: BaseTransformer.__init__ validates nothing
CreateTransformer ==
    /\ pc = "create_transformer"
    /\ IF transformerCfg \notin TRANSFORMERS
         THEN /\ RaiseInTry(Exc("PipelineException"))
              /\ UNCHANGED transformer
         ELSE /\ transformer' = transformerCfg
              /\ pc' = "create_sinks"
              /\ UNCHANGED <<exc, rootCause>>
    /\ UNCHANGED <<notExec, inputVars, connector, client, built, sinks, connection, raw_data, i,
                   outcome, constructed, fetchCalls, transformCalls, writeCalls,
                   writeLog, written, connectorCloseCalls, closeCalls, closeRaised,
                   stageExc, failedWrite, active,
                   completed>>

\* line 46 and _create_sink: one element of the list comprehension. `sinks` is
\* assigned only when the whole comprehension has been evaluated.
CreateSink ==
    /\ pc = "create_sinks"
    /\ LET k == Len(built) + 1 IN
       IF k > Len(sinkCfgs)
         THEN /\ sinks' = built
              /\ pc' = "fetch"
              /\ UNCHANGED <<built, exc, rootCause, constructed>>
         ELSE IF sinkCfgs[k] \notin SINKS
           THEN /\ RaiseInTry(Exc("PipelineException"))
                /\ UNCHANGED <<built, sinks, constructed>>
           ELSE \E ok \in BOOLEAN :
                  IF ok
                    THEN /\ built' = Append(built, k)
                         /\ constructed' = constructed \cup {k}
                         /\ UNCHANGED <<pc, exc, rootCause, sinks>>
                    ELSE /\ RaiseInTry(Exc("SinkException"))
                         /\ UNCHANGED <<built, sinks, constructed>>
    /\ UNCHANGED <<notExec, inputVars, connector, client, transformer, connection, raw_data, i,
                   outcome, fetchCalls, transformCalls, writeCalls, writeLog, written,
                   connectorCloseCalls, closeCalls, closeRaised, stageExc,
                   failedWrite, active,
                   completed>>

\* line 48, the call: HttpConnector.fetch / RestConnector.fetch create the
\* client first, then await the request
FetchCall ==
    /\ pc = "fetch"
    /\ fetchCalls' = fetchCalls + 1
    /\ client' = TRUE
    /\ active' = active \cup {"fetch"}
    /\ pc' = "in_fetch"
    /\ UNCHANGED <<notExec, inputVars, connector, transformer, built, sinks, connection,
                   raw_data, i, exc, outcome, constructed, transformCalls, writeCalls,
                   writeLog, written, connectorCloseCalls, closeCalls, closeRaised,
                   stageExc, failedWrite,
                   rootCause, completed>>

\* FetchReturn that calls fetch again after a ConnectorException
FetchReturn_Retries ==
    /\ pc = "in_fetch"
    /\ active' = active \ {"fetch"}
    /\ \E r \in {"dict", "list", "ConnectorException", "ValueError"} :
         IF r \in {"dict", "list"}
           THEN /\ raw_data' = r
                /\ pc' = "transform"
                /\ UNCHANGED <<exc, rootCause>>
           ELSE IF r = "ConnectorException" /\ fetchCalls < 2
             THEN /\ pc' = "fetch"
                  /\ UNCHANGED <<exc, rootCause, raw_data>>
             ELSE /\ RaiseInTry(Exc(r))
                  /\ UNCHANGED raw_data
    /\ UNCHANGED <<notExec, inputVars, connector, client, transformer, built, sinks, connection,
                   i, outcome, constructed, fetchCalls, transformCalls, writeCalls,
                   writeLog, written, connectorCloseCalls, closeCalls, closeRaised,
                   stageExc, failedWrite, completed>>

\* line 48, the return: a JSON document (a mapping or not), ConnectorException
\* for an httpx.HTTPError, or the decoder's ValueError
FetchReturn ==
    /\ pc = "in_fetch"
    /\ active' = active \ {"fetch"}
    /\ \E r \in {"dict", "list", "ConnectorException", "ValueError"} :
         IF r \in {"dict", "list"}
           THEN /\ raw_data' = r
                /\ pc' = "transform"
                /\ UNCHANGED <<exc, rootCause>>
           ELSE /\ RaiseInTry(Exc(r))
                /\ UNCHANGED raw_data
    /\ UNCHANGED <<notExec, inputVars, connector, client, transformer, built, sinks, connection,
                   i, outcome, constructed, fetchCalls, transformCalls, writeCalls,
                   writeLog, written, connectorCloseCalls, closeCalls, closeRaised,
                   stageExc, failedWrite,
                   completed>>

\* line 51: JsonNormalizer.transform, synchronous; raises TransformerException
\* when the data is not a dict
Transform ==
    /\ pc = "transform"
    /\ transformCalls' = transformCalls + 1
    /\ IF raw_data = "dict"
         THEN /\ pc' = "write"
              /\ i' = 1
              /\ UNCHANGED <<exc, rootCause>>
         ELSE /\ RaiseInTry(Exc("TransformerException"))
              /\ UNCHANGED i
    /\ UNCHANGED <<notExec, inputVars, connector, client, transformer, built, sinks, connection,
                   raw_data, outcome, constructed, fetchCalls, writeCalls, writeLog,
                   written, connectorCloseCalls, closeCalls, closeRaised, stageExc,
                   failedWrite, active,
                   completed>>

\* lines 54-58: the next iteration of the write loop, or its end
WriteCall ==
    /\ pc = "write"
    /\ IF i > Len(sinks)
         THEN /\ pc' = "finally"
              /\ completed' = TRUE
              /\ UNCHANGED <<writeCalls, writeLog, active>>
         ELSE /\ writeCalls' = [writeCalls EXCEPT ![sinks[i]] = @ + 1]
              /\ writeLog' = Append(writeLog, sinks[i])
              /\ active' = active \cup {"write"}
              /\ pc' = "in_write"
              /\ UNCHANGED completed
    /\ UNCHANGED <<notExec, inputVars, connector, client, transformer, built, sinks, connection,
                   raw_data, i, exc, outcome, constructed, fetchCalls, transformCalls,
                   written, connectorCloseCalls, closeCalls, closeRaised, stageExc,
                   failedWrite,
                   rootCause>>

\* line 55, the return. FileSink.write opens no connection. PostgresSink.write
\* and DuckDBSink.write connect first when there is no connection (_connect may
\* raise and leaves connection None), then insert (may raise).
WriteReturn ==
    /\ pc = "in_write"
    /\ active' = active \ {"write"}
    /\ LET k == sinks[i] IN
       \E connects \in BOOLEAN, ok \in BOOLEAN :
         LET conn == IF sinkCfgs[k] = "file" THEN FALSE
                     ELSE connection[k] \/ connects
             reached == sinkCfgs[k] = "file" \/ conn
         IN /\ connection' = [connection EXCEPT ![k] = conn]
            /\ IF reached /\ ok
                 THEN /\ written' = written \cup {k}
                      /\ i' = i + 1
                      /\ pc' = "write"
                      /\ UNCHANGED <<exc, rootCause, failedWrite>>
                 ELSE /\ RaiseInTry(Exc("SinkException"))
                      /\ failedWrite' = k
                      /\ UNCHANGED <<written, i>>
    /\ UNCHANGED <<notExec, inputVars, connector, client, transformer, built, sinks, raw_data,
                   outcome, constructed, fetchCalls, transformCalls, writeCalls,
                   writeLog, connectorCloseCalls, closeCalls, closeRaised, stageExc,
                   completed>>

\* lines 60-62: except Exception as e: raise PipelineException(...) from e
Except ==
    /\ pc = "except"
    /\ exc' = PipelineFailed(name, exc)
    /\ pc' = "finally"
    /\ UNCHANGED <<notExec, inputVars, connector, client, transformer, built, sinks, connection,
                   raw_data, i, outcome, constructed, fetchCalls, transformCalls,
                   writeCalls, writeLog, written, connectorCloseCalls, closeCalls,
                   closeRaised, stageExc, failedWrite, active,
                   rootCause, completed>>

\* lines 64-66: finally: if connector: await connector.close()
ConnectorCloseCall ==
    /\ pc = "finally"
    /\ stageExc' = exc
    /\ IF connector # None
         THEN /\ connectorCloseCalls' = connectorCloseCalls + 1
              /\ pc' = "in_connector_close"
              /\ UNCHANGED i
         ELSE /\ pc' = "close_sinks"
              /\ i' = 1
              /\ UNCHANGED connectorCloseCalls
    /\ UNCHANGED <<notExec, inputVars, connector, client, transformer, built, sinks, connection,
                   raw_data, exc, outcome, constructed, fetchCalls, transformCalls,
                   writeCalls, writeLog, written, closeCalls, closeRaised,
                   failedWrite, active,
                   rootCause, completed>>

\* an exception raised inside the finally block leaves execute at once and
\* replaces the exception in flight
RaiseInFinally(e) ==
    /\ exc' = e
    /\ closeRaised' = closeRaised + 1
    /\ pc' = "end"

\* HttpConnector.close / RestConnector.close: aclose() only when a client exists
ConnectorCloseReturn ==
    /\ pc = "in_connector_close"
    /\ \E ok \in BOOLEAN :
         IF ok \/ ~client
           THEN /\ pc' = "close_sinks"
                /\ i' = 1
                /\ UNCHANGED <<exc, closeRaised>>
           ELSE /\ RaiseInFinally(Exc("CloseError"))
                /\ UNCHANGED i
    /\ UNCHANGED <<notExec, inputVars, connector, client, transformer, built, sinks, connection,
                   raw_data, outcome, constructed, fetchCalls, transformCalls,
                   writeCalls, writeLog, written, connectorCloseCalls, closeCalls,
                   stageExc, failedWrite, active,
                   rootCause, completed>>

\* lines 67-68: for sink in sinks: await sink.close()
SinkCloseCall ==
    /\ pc = "close_sinks"
    /\ IF i > Len(sinks)
         THEN /\ pc' = "end"
              /\ UNCHANGED closeCalls
         ELSE /\ closeCalls' = [closeCalls EXCEPT ![sinks[i]] = @ + 1]
              /\ pc' = "in_sink_close"
    /\ UNCHANGED <<notExec, inputVars, connector, client, transformer, built, sinks, connection,
                   raw_data, i, exc, outcome, constructed, fetchCalls, transformCalls,
                   writeCalls, writeLog, written, connectorCloseCalls, closeRaised,
                   stageExc, failedWrite, active,
                   rootCause, completed>>

\* FileSink.close does nothing; PostgresSink.close and DuckDBSink.close close
\* the connection only when there is one
SinkCloseReturn ==
    /\ pc = "in_sink_close"
    /\ \E ok \in BOOLEAN :
         IF ok \/ ~connection[sinks[i]]
           THEN /\ i' = i + 1
                /\ pc' = "close_sinks"
                /\ UNCHANGED <<exc, closeRaised>>
           ELSE /\ RaiseInFinally(Exc("CloseError"))
                /\ UNCHANGED i
    /\ UNCHANGED <<notExec, inputVars, connector, client, transformer, built, sinks, connection,
                   raw_data, outcome, constructed, fetchCalls, transformCalls,
                   writeCalls, writeLog, written, connectorCloseCalls, closeCalls,
                   stageExc, failedWrite, active,
                   rootCause, completed>>

\* execute is left: with the exception in flight, or returning None
Leave ==
    /\ pc = "end"
    /\ pc' = "done"
    /\ outcome' = IF exc = NoExc
                    THEN [status |-> "returned", error |-> NoExc]
                    ELSE [status |-> "raised", error |-> exc]
    /\ UNCHANGED <<notExec, inputVars, connector, client, transformer, built, sinks, connection,
                   raw_data, i, exc, constructed, fetchCalls, transformCalls,
                   writeCalls, writeLog, written, connectorCloseCalls, closeCalls,
                   closeRaised, stageExc, failedWrite, active,
                   rootCause, completed>>

NextExec ==
    \/ Start
    \/ CreateConnector
    \/ CreateTransformer
    \/ CreateSink
    \/ FetchCall
    \/ FetchReturn
    \/ Transform
    \/ WriteCall
    \/ WriteReturn
    \/ Except
    \/ ConnectorCloseCall
    \/ ConnectorCloseReturn
    \/ SinkCloseCall
    \/ SinkCloseReturn
    \/ Leave

SpecExec == InitExec /\ [][NextExec]_vars

\* ------------------------------------------------------------------------
\* CircuitBreaker
\* ------------------------------------------------------------------------
\* _should_attempt_reset
ShouldAttemptReset ==
    IF last_failure_time = NoTime THEN FALSE
    ELSE (now - last_failure_time) >= recovery_timeout

\* _on_failure, line 207, with a strict comparison
Trips_Strict(count) == count > failure_threshold

\* _on_failure, line 207: the count that opens the circuit
Trips(count) == count >= failure_threshold

\* a rejection that counts as a failure of its own
AfterRejection_Now == now

\* lines 169-173: the rejection raises and touches nothing; in particular
\* _last_failure_time stays
AfterRejection == last_failure_time

\* a probe is awaiting func
ProbeInFlight == \E q \in Callers : cpc[q] = "in_func" /\ role[q] = "probe"

\* the premise of "the very next call before recoveryTimeout has elapsed":
\* the last matching failure completed a run of failure_threshold of them,
\* no call arrived since, and less than recovery_timeout went by
Armed ==
    /\ streak >= failure_threshold
    /\ ~calledSince
    /\ last_failure_time # NoTime
    /\ (now - last_failure_time) < recovery_timeout

\* call, lines 165-176 up to the await: the open check, then func is invoked.
\* No suspension point lies between the check and the invocation.
BreakerCall(p) ==
    /\ cpc[p] = "idle"
    /\ IF state = "open" /\ ~ShouldAttemptReset
         THEN \* raise Exception("Circuit breaker is OPEN ..."): func is not invoked
              /\ nextCall' = IF Armed THEN "rejected" ELSE None
              /\ last_failure_time' = AfterRejection
              /\ callEnd' = [by |-> p, how |-> "rejected", role |-> None]
              /\ sinceFailure' = [sinceFailure EXCEPT !.rejected = IF @ < 2 THEN @ + 1 ELSE @]
              /\ UNCHANGED <<state, cpc, role, besideProbe>>
         ELSE /\ state' = IF state = "open" THEN "half_open" ELSE state
              /\ cpc' = [cpc EXCEPT ![p] = "in_func"]
              /\ role' = [role EXCEPT ![p] = IF state = "open" THEN "probe" ELSE state]
              /\ besideProbe' = [besideProbe EXCEPT ![p] = ProbeInFlight]
              /\ nextCall' = IF Armed THEN "admitted" ELSE None
              /\ callEnd' = NoEnd
              /\ UNCHANGED <<last_failure_time, sinceFailure>>
    /\ calledSince' = TRUE
    /\ probeEnded' = None
    /\ UNCHANGED <<failure_threshold, recovery_timeout, failure_count, now, streak>>

Call(p) == BreakerCall(p) /\ UNCHANGED notBreaker

\* the task leaves call
Leaves(p) ==
    /\ cpc' = [cpc EXCEPT ![p] = "idle"]
    /\ role' = [role EXCEPT ![p] = None]
    /\ besideProbe' = [besideProbe EXCEPT ![p] = FALSE]

\* a breaker whose _on_success leaves failure_count as it is
BreakerReturns_KeepsCount(p) ==
    /\ cpc[p] = "in_func"
    /\ failure_count' = failure_count
    /\ state' = IF state = "half_open" THEN "closed" ELSE state
    /\ Leaves(p)
    /\ streak' = 0
    /\ probeEnded' = IF role[p] = "probe" THEN "success" ELSE None
    /\ callEnd' = [by |-> p, how |-> "returned", role |-> role[p]]
    /\ UNCHANGED <<failure_threshold, recovery_timeout, last_failure_time, now,
                   calledSince, nextCall, sinceFailure>>

\* lines 176-178: func returned, then _on_success
BreakerReturns(p) ==
    /\ cpc[p] = "in_func"
    /\ failure_count' = 0
    /\ state' = IF state = "half_open" THEN "closed" ELSE state
    /\ Leaves(p)
    /\ streak' = 0
    /\ probeEnded' = IF role[p] = "probe" THEN "success" ELSE None
    /\ callEnd' = [by |-> p, how |-> "returned", role |-> role[p]]
    /\ UNCHANGED <<failure_threshold, recovery_timeout, last_failure_time, now,
                   calledSince, nextCall, sinceFailure>>

FuncReturns(p) == BreakerReturns(p) /\ UNCHANGED notBreaker

\* an except clause that catches every exception
Caught_Always(matches) == TRUE

\* line 180, `except self.expected_exception`: the clause catches the
\* exceptions that are instances of expected_exception
Caught(matches) == matches

\* lines 175-182: func raised. An exception caught at line 180 goes through
\* _on_failure and is raised again; any other propagates and neither
\* _on_success nor _on_failure runs
BreakerRaises(p, matches) ==
    /\ cpc[p] = "in_func"
    /\ IF Caught(matches)
         THEN /\ failure_count < MaxFailures
              /\ failure_count' = failure_count + 1
              /\ last_failure_time' = now
              /\ state' = IF Trips(failure_count + 1) THEN "open" ELSE state
              /\ streak' = streak + 1
              /\ calledSince' = FALSE
              /\ nextCall' = None
              /\ probeEnded' = IF role[p] = "probe" THEN "failure" ELSE None
         ELSE /\ probeEnded' = None
              /\ UNCHANGED <<failure_count, last_failure_time, state, streak,
                             calledSince, nextCall>>
    /\ Leaves(p)
    /\ callEnd' = [by |-> p, how |-> IF matches THEN "raised_expected" ELSE "raised_other",
                   role |-> role[p]]
    /\ sinceFailure' = IF matches THEN [at |-> now, rejected |-> 0] ELSE sinceFailure
    /\ UNCHANGED <<failure_threshold, recovery_timeout, now>>

\* func raised an expected_exception
BreakerRaisesExpected(p) == BreakerRaises(p, TRUE)

FuncRaisesExpected(p) == BreakerRaisesExpected(p) /\ UNCHANGED notBreaker

\* func raised an exception that is no expected_exception
BreakerRaisesOther(p) == BreakerRaises(p, FALSE)

FuncRaisesOther(p) == BreakerRaisesOther(p) /\ UNCHANGED notBreaker

\* time.time() advances
ClockAdvances ==
    /\ now < MaxTime
    /\ now' = now + 1
    /\ probeEnded' = None
    /\ callEnd' = NoEnd
    /\ UNCHANGED <<failure_threshold, recovery_timeout, failure_count,
                   last_failure_time, state, cpc, role, besideProbe, streak,
                   calledSince, nextCall, sinceFailure>>

Tick == ClockAdvances /\ UNCHANGED notBreaker

\* the executor of a specification that runs no pipeline stays as constructed
ExecUnused ==
    /\ pc = "start" /\ name = "p1" /\ enabled = FALSE /\ connectorCfg = "http"
    /\ transformerCfg = "json_normalizer" /\ sinkCfgs = <<>> /\ connector = None
    /\ client = FALSE /\ transformer = None /\ built = <<>> /\ sinks = <<>>
    /\ connection = <<>> /\ raw_data = None /\ i = 0 /\ exc = NoExc
    /\ outcome = [status |-> "running", error |-> NoExc]
    /\ constructed = {} /\ fetchCalls = 0 /\ transformCalls = 0
    /\ writeCalls = <<>> /\ writeLog = <<>> /\ written = {}
    /\ connectorCloseCalls = 0 /\ closeCalls = <<>> /\ closeRaised = 0
    /\ stageExc = NoExc /\ failedWrite = 0 /\ rootCause = None
    /\ completed = FALSE /\ active = {}

InitBreaker ==
    /\ BackendsUnused
    /\ PolicyUnused
    /\ NormalizerUnused
    /\ ValidateUnused
    /\ DiskCacheUnused
    /\ RequestCacheUnused
    /\ InitCB
    /\ ExecUnused
    /\ RetryUnused
    /\ TokenBucketUnused
    /\ SlidingWindowUnused
    /\ AdaptiveUnused
    /\ MemoryCacheUnused

NextBreaker ==
    \/ \E p \in Callers : Call(p)
    \/ \E p \in Callers : FuncReturns(p)
    \/ \E p \in Callers : FuncRaisesExpected(p)
    \/ \E p \in Callers : FuncRaisesOther(p)
    \/ Tick

SpecBreaker == InitBreaker /\ [][NextBreaker]_vars

\* calls that do not overlap in time: a call is made when none is in flight
SequentialCall(p) == (\A q \in Callers : cpc[q] = "idle") /\ Call(p)

NextSequential ==
    \/ \E p \in Callers : SequentialCall(p)
    \/ \E p \in Callers : FuncReturns(p)
    \/ \E p \in Callers : FuncRaisesExpected(p)
    \/ \E p \in Callers : FuncRaisesOther(p)
    \/ Tick

SpecSequential == InitBreaker /\ [][NextSequential]_vars

(***************************************************************************)
(* retry_async (src/forgeflow/core/retry.py, lines 47-101) around an       *)
(* operation, alone or guarded by the circuit breaker                      *)
(***************************************************************************)

\* the exception kinds the operation itself raises
OpKinds == {"ConnectorException", "ValueError"}

\* the retry_on tuples: the default and one listing the operation's own kind
RetryOnChoices == {DefaultRetryOn, {"ConnectorException"}}

\* the task of retry_async is caller 1 of the breaker
RetryTask == 1

Max(a, b) == IF a >= b THEN a ELSE b
Min(a, b) == IF a <= b THEN a ELSE b

RECURSIVE Pow(_, _)
Pow(b, e) == IF e = 0 THEN 1 ELSE b * Pow(b, e - 1)

\* isinstance(e, retry_on): every kind is an Exception
Matches_Any(kind, on) == TRUE

\* retry_if_exception_type(config.retry_on)
Matches(kind, on) == "Exception" \in on \/ kind \in on

\* a stop that lets one more attempt through
StopAfterAttempt_Late(n) == n > max_attempts

\* stop_after_attempt(config.max_attempts), asked after attempt n failed
StopAfterAttempt(n) == n >= max_attempts

\* a backoff of base multiplier that starts at min
WaitExponential_FromMin(n) == Min(max_wait, min_wait * Pow(multiplier, n))

\* wait_exponential(multiplier, min, max), the sleep after attempt n failed:
\* multiplier * 2 ** (n - 1) clamped to [min, max]
WaitExponential(n) ==
    Max(Max(0, min_wait), Min(multiplier * Pow(2, n - 1), max_wait))

\* the exception of attempt n: its kind as retry_async sees it, and own, the
\* kind with which it was first raised
Err(kind, n, rej) == [kind |-> kind, by |-> n, rejected |-> rej, own |-> kind]

\* lines 180-182: `raise` in the except clause of CircuitBreaker.call, and an
\* exception that the clause does not catch: the exception goes on as it is
PassedOn(e) == e

\* a strategy that wraps the last exception of a retried call in RetryError
Reraised_AsRetryError(e) ==
    IF Matches(e.kind, retry_on) THEN [e EXCEPT !.kind = "RetryError"] ELSE e

\* line 84, reraise=True: retry_async ends with the exception of the last
\* attempt itself
Reraised(e) == e

\* the attempt raised e: the retry predicate, then the stop (reraise=True
\* raises the attempt's own exception), else the sleep
AfterFailure(e) ==
    /\ attemptLog' = Append(attemptLog, [status |-> "raised", error |-> e])
    /\ IF ~Matches(e.kind, retry_on) \/ StopAfterAttempt(attempt')
         THEN /\ rpc' = "done"
              /\ rresult' = [status |-> "raised", error |-> Reraised(e)]
              /\ waits' = waits
         ELSE /\ rpc' = "sleeping"
              /\ waits' = Append(waits, WaitExponential(attempt'))
              /\ rresult' = rresult

retryInputs == <<max_attempts, min_wait, max_wait, multiplier, retry_on, guarded>>

\* lines 88-100: an attempt begins and calls the operation
AttemptFunc ==
    /\ rpc = "iter"
    /\ ~guarded
    /\ attempt' = attempt + 1
    /\ rpc' = "in_func"
    /\ UNCHANGED <<retryInputs, waits, attemptLog, rresult, notRetry, cbVars>>

\* lines 88-100 with func = breaker.call(op): the breaker admits the call or
\* rejects it with Exception("Circuit breaker is OPEN ...")
AttemptBreakerCall ==
    /\ rpc = "iter"
    /\ guarded
    /\ attempt' = attempt + 1
    /\ BreakerCall(RetryTask)
    /\ IF cpc'[RetryTask] = "in_func"
         THEN /\ rpc' = "in_func"
              /\ UNCHANGED <<waits, attemptLog, rresult>>
         ELSE AfterFailure(Err("Exception", attempt', TRUE))
    /\ UNCHANGED <<retryInputs, notRetry>>

\* lines 100-101: the operation returned
FuncReturn ==
    /\ rpc = "in_func"
    /\ ~guarded
    /\ attempt' = attempt
    /\ attemptLog' = Append(attemptLog, [status |-> "returned", error |-> NoErr])
    /\ rpc' = "done"
    /\ rresult' = [status |-> "returned", error |-> NoErr]
    /\ UNCHANGED <<retryInputs, waits, notRetry, cbVars>>

\* lines 100-101: the guarded operation returned
BreakerFuncReturn ==
    /\ rpc = "in_func"
    /\ guarded
    /\ BreakerReturns(RetryTask)
    /\ attempt' = attempt
    /\ attemptLog' = Append(attemptLog, [status |-> "returned", error |-> NoErr])
    /\ rpc' = "done"
    /\ rresult' = [status |-> "returned", error |-> NoErr]
    /\ UNCHANGED <<retryInputs, waits, notRetry>>

\* line 100: the operation raised
FuncRaise ==
    /\ rpc = "in_func"
    /\ ~guarded
    /\ attempt' = attempt
    /\ \E k \in OpKinds : AfterFailure(Err(k, attempt, FALSE))
    /\ UNCHANGED <<retryInputs, notRetry, cbVars>>

\* line 100: the guarded operation raised an exception the breaker counts
BreakerFuncRaiseExpected ==
    /\ rpc = "in_func"
    /\ guarded
    /\ BreakerRaisesExpected(RetryTask)
    /\ attempt' = attempt
    /\ \E k \in OpKinds : AfterFailure(PassedOn(Err(k, attempt, FALSE)))
    /\ UNCHANGED <<retryInputs, notRetry>>

\* line 100: the guarded operation raised an exception the breaker passes on
BreakerFuncRaiseOther ==
    /\ rpc = "in_func"
    /\ guarded
    /\ BreakerRaisesOther(RetryTask)
    /\ attempt' = attempt
    /\ \E k \in OpKinds : AfterFailure(PassedOn(Err(k, attempt, FALSE)))
    /\ UNCHANGED <<retryInputs, notRetry>>

\* the sleep between two attempts is over; the breaker's clock counts its own
\* units, so how far it moved during a sleep is left open (RetryTick)
Wake ==
    /\ rpc = "sleeping"
    /\ rpc' = "iter"
    /\ UNCHANGED <<retryInputs, attempt, waits, attemptLog, rresult, notRetry, cbVars>>

\* time.time() of the breaker advances while the task of retry_async runs
RetryTick ==
    /\ guarded
    /\ rpc # "done"
    /\ Tick

\* retry_async(op, RetryConfig(...)) with any policy, and
\* retry_async(breaker.call(op), RetryConfig(max_attempts, retry_on)) with the
\* default waits
InitRetry ==
    /\ BackendsUnused
    /\ PolicyUnused
    /\ NormalizerUnused
    /\ ValidateUnused
    /\ DiskCacheUnused
    /\ RequestCacheUnused
    /\ ExecUnused
    /\ TokenBucketUnused
    /\ SlidingWindowUnused
    /\ AdaptiveUnused
    /\ MemoryCacheUnused
    /\ max_attempts \in 1..MaxAttempts
    /\ retry_on \in RetryOnChoices
    /\ guarded \in BOOLEAN
    /\ IF guarded
         THEN /\ InitCB
              /\ min_wait = DefaultMinWait /\ max_wait = DefaultMaxWait
              /\ multiplier = DefaultMultiplier
         ELSE /\ CBUnused
              /\ min_wait \in 0..MaxMinWait
              /\ max_wait \in 1..MaxMaxWait
              /\ multiplier \in 1..MaxMultiplier
    /\ rpc = "iter"
    /\ attempt = 0
    /\ waits = <<>>
    /\ attemptLog = <<>>
    /\ rresult = [status |-> "running", error |-> NoErr]

NextRetry ==
    \/ AttemptFunc
    \/ AttemptBreakerCall
    \/ FuncReturn
    \/ BreakerFuncReturn
    \/ FuncRaise
    \/ BreakerFuncRaiseExpected
    \/ BreakerFuncRaiseOther
    \/ Wake
    \/ RetryTick

SpecRetry == InitRetry /\ [][NextRetry]_vars

(***************************************************************************)
(* RateLimiter, the token bucket (src/dataforge/core/rate_limiter.py,      *)
(* lines 13-96), with NCallers concurrent tasks                            *)
(***************************************************************************)

\* the acquire calls of one run: one more than max_requests
MaxAcquires == tb_max_requests + 1

\* the acquire calls begun so far
Begun == Len(grants) + Len(tbRaised) + Cardinality({p \in Callers : tpc[p] # "idle"})

\* a bucket that refills without the burst_size cap
Refilled_Uncapped == tb_tokens + (tb_now - tb_last_update)

\* lines 76-85, _refill: _tokens after the refill, in units
Refilled == Min(tb_burst_size * tb_time_window, tb_tokens + (tb_now - tb_last_update))

\* a wait of one whole time_window
WaitTime_Window(k) == tb_time_window * tb_max_requests

\* line 65: (tokens - self._tokens) * (time_window / max_requests), in ticks,
\* taken after the refill
WaitTime(k) == k * tb_time_window - Refilled

\* a bucket that admits without looking at its tokens
Enough_Always(k) == TRUE

\* line 55, after the refill: self._tokens >= tokens
Enough(k) == Refilled >= k * tb_time_window

\* a test that lets every request through
TooMany_Never(k) == FALSE

\* a test that also rejects a request for the whole capacity
TooMany_AtCapacity(k) == k >= tb_burst_size

\* line 48: tokens > self.burst_size
TooMany(k) == k > tb_burst_size

\* lines 52-74: one pass of the loop by the task holding _lock: refill, then
\* consume and return, or sleep holding the lock
LoopPass(p, k, called, sleeps) ==
    /\ tb_last_update' = tb_now
    /\ IF Enough(k)
         THEN /\ tb_tokens' = Refilled - k * tb_time_window
              /\ tb_lock' = 0
              /\ tpc' = [tpc EXCEPT ![p] = "idle"]
              /\ grants' = Append(grants, [n |-> k, called |-> called, at |-> tb_now,
                                           slept |-> sleeps])
              /\ slept' = [slept EXCEPT ![p] = <<>>]
              /\ wakeAt' = wakeAt
         ELSE /\ tb_tokens' = Refilled
              /\ tb_lock' = p
              /\ tpc' = [tpc EXCEPT ![p] = "sleeping"]
              /\ wakeAt' = [wakeAt EXCEPT ![p] = tb_now + WaitTime(k)]
              /\ slept' = [slept EXCEPT ![p] = Append(sleeps, WaitTime(k))]
              /\ grants' = grants

tbConfig == <<tb_max_requests, tb_time_window, tb_burst_size>>

\* lines 39-53: acquire(tokens=k) raises ValueError, or enters the free lock
\* and makes its first pass, or waits for the lock
Acquire(p, k) ==
    /\ tpc[p] = "idle"
    /\ Begun < MaxAcquires
    /\ IF TooMany(k)
         THEN /\ tbRaised' = Append(tbRaised, k)
              /\ UNCHANGED <<tb_tokens, tb_last_update, tb_lock, tb_waiters, tpc, need,
                             wakeAt, calledAt, slept, grants>>
         ELSE /\ need' = [need EXCEPT ![p] = k]
              /\ calledAt' = [calledAt EXCEPT ![p] = tb_now]
              /\ tbRaised' = tbRaised
              /\ IF tb_lock = 0 /\ tb_waiters = <<>>
                   THEN /\ LoopPass(p, k, tb_now, <<>>)
                        /\ tb_waiters' = tb_waiters
                   ELSE /\ tb_waiters' = Append(tb_waiters, p)
                        /\ tpc' = [tpc EXCEPT ![p] = "waiting"]
                        /\ UNCHANGED <<tb_tokens, tb_last_update, tb_lock, wakeAt,
                                       slept, grants>>
    /\ UNCHANGED <<tbConfig, tb_now, notTokenBucket>>

\* line 51: the first task waiting for the released lock enters it and makes
\* its first pass
LockGranted(p) ==
    /\ tpc[p] = "waiting"
    /\ tb_lock = 0
    /\ tb_waiters # <<>> /\ Head(tb_waiters) = p
    /\ tb_waiters' = Tail(tb_waiters)
    /\ LoopPass(p, need[p], calledAt[p], <<>>)
    /\ UNCHANGED <<tbConfig, tb_now, need, calledAt, tbRaised, notTokenBucket>>

\* line 74: asyncio.sleep(wait_time) is over, the task makes another pass
SleepOver(p) ==
    /\ tpc[p] = "sleeping"
    /\ tb_now >= wakeAt[p]
    /\ LoopPass(p, need[p], calledAt[p], slept[p])
    /\ UNCHANGED <<tbConfig, tb_now, tb_waiters, need, calledAt, tbRaised, notTokenBucket>>

\* time.monotonic() advances by one tick
MonotonicAdvances ==
    /\ tb_now < MaxClock
    /\ tb_now' = tb_now + 1
    /\ UNCHANGED <<tbConfig, tb_tokens, tb_last_update, tb_lock, tb_waiters, tpc, need,
                   wakeAt, calledAt, slept, grants, tbRaised, notTokenBucket>>

\* lines 26-37: RateLimiter(max_requests, time_window, burst_size) with
\* burst_size up to max_requests, its default, constructed at tick 0 with a
\* full bucket
NewTokenBucket ==
    /\ tb_max_requests \in 1..MaxRequests
    /\ tb_time_window \in 1..MaxWindow
    /\ tb_burst_size \in 1..tb_max_requests
    /\ tb_tokens = tb_burst_size * tb_time_window
    /\ tb_last_update = 0
    /\ tb_lock = 0
    /\ tb_waiters = <<>>
    /\ tb_now = 0
    /\ tpc = [p \in Callers |-> "idle"]
    /\ need = [p \in Callers |-> 0]
    /\ wakeAt = [p \in Callers |-> 0]
    /\ calledAt = [p \in Callers |-> 0]
    /\ slept = [p \in Callers |-> <<>>]
    /\ grants = <<>>
    /\ tbRaised = <<>>

InitTokenBucket ==
    /\ BackendsUnused
    /\ PolicyUnused
    /\ NormalizerUnused
    /\ ValidateUnused
    /\ DiskCacheUnused
    /\ RequestCacheUnused
    /\ ExecUnused /\ CBUnused /\ RetryUnused /\ SlidingWindowUnused /\ AdaptiveUnused
    /\ MemoryCacheUnused
    /\ NewTokenBucket

NextTokenBucket ==
    \/ \E p \in Callers, k \in 1..MaxTokens : Acquire(p, k)
    \/ \E p \in Callers : LockGranted(p)
    \/ \E p \in Callers : SleepOver(p)
    \/ MonotonicAdvances

SpecTokenBucket == InitTokenBucket /\ [][NextTokenBucket]_vars

(***************************************************************************)
(* SlidingWindowRateLimiter (src/dataforge/core/rate_limiter.py, lines     *)
(* 97-157), with NCallers concurrent tasks                                 *)
(***************************************************************************)

\* lines 124-125: the timestamps left once those no later than t are dropped
\* from the front
RECURSIVE Pruned(_, _)
Pruned(reqs, t) ==
    IF reqs # <<>> /\ Head(reqs) <= t THEN Pruned(Tail(reqs), t) ELSE reqs

\* a limiter that admits one request too many
HasRoom_OneMore(reqs) == Len(reqs) <= sw_max_requests

\* line 128: len(self._requests) < self.max_requests
HasRoom(reqs) == Len(reqs) < sw_max_requests

\* the acquire calls begun so far, and those of one run
SWBegun == Len(admitted) + Cardinality({p \in Callers : spc[p] # "idle"})
SWMaxAcquires == sw_max_requests + 2

\* lines 120-146: one pass of the loop by the task holding _lock: prune, then
\* record the request and return, or sleep holding the lock until the oldest
\* timestamp leaves the window
WindowPass(p) ==
    LET kept == Pruned(sw_requests, sw_now - sw_time_window)
    IN  IF HasRoom(kept)
          THEN /\ sw_requests' = Append(kept, sw_now)
               /\ admitted' = Append(admitted, sw_now)
               /\ sw_lock' = 0
               /\ spc' = [spc EXCEPT ![p] = "idle"]
               /\ swWakeAt' = swWakeAt
          ELSE /\ sw_requests' = kept
               /\ admitted' = admitted
               /\ sw_lock' = p
               /\ spc' = [spc EXCEPT ![p] = "sleeping"]
               /\ swWakeAt' = [swWakeAt EXCEPT ![p] = Head(kept) + sw_time_window]

\* lines 117-119: acquire() enters the free lock and makes its first pass, or
\* waits for the lock
SWAcquire(p) ==
    /\ spc[p] = "idle"
    /\ SWBegun < SWMaxAcquires
    /\ IF sw_lock = 0 /\ sw_waiters = <<>>
         THEN /\ WindowPass(p)
              /\ sw_waiters' = sw_waiters
         ELSE /\ sw_waiters' = Append(sw_waiters, p)
              /\ spc' = [spc EXCEPT ![p] = "waiting"]
              /\ UNCHANGED <<sw_requests, sw_lock, swWakeAt, admitted>>
    /\ UNCHANGED <<sw_max_requests, sw_time_window, sw_now, notSlidingWindow>>

\* line 119: the first task waiting for the released lock enters it
SWLockGranted(p) ==
    /\ spc[p] = "waiting"
    /\ sw_lock = 0
    /\ sw_waiters # <<>> /\ Head(sw_waiters) = p
    /\ sw_waiters' = Tail(sw_waiters)
    /\ WindowPass(p)
    /\ UNCHANGED <<sw_max_requests, sw_time_window, sw_now, notSlidingWindow>>

\* line 146: asyncio.sleep(wait_time) is over, the task makes another pass
SWSleepOver(p) ==
    /\ spc[p] = "sleeping"
    /\ sw_now >= swWakeAt[p]
    /\ WindowPass(p)
    /\ UNCHANGED <<sw_max_requests, sw_time_window, sw_now, sw_waiters, notSlidingWindow>>

\* time.monotonic() advances by one tick
SWMonotonicAdvances ==
    /\ sw_now < MaxClock
    /\ sw_now' = sw_now + 1
    /\ UNCHANGED <<sw_max_requests, sw_time_window, sw_requests, sw_lock, sw_waiters,
                   spc, swWakeAt, admitted, notSlidingWindow>>

\* lines 111-115: SlidingWindowRateLimiter(max_requests, time_window)
NewSlidingWindow ==
    /\ sw_max_requests \in 1..MaxRequests
    /\ sw_time_window \in 1..MaxWindow
    /\ sw_requests = <<>>
    /\ sw_lock = 0
    /\ sw_waiters = <<>>
    /\ sw_now = 0
    /\ spc = [p \in Callers |-> "idle"]
    /\ swWakeAt = [p \in Callers |-> 0]
    /\ admitted = <<>>

InitSlidingWindow ==
    /\ BackendsUnused
    /\ PolicyUnused
    /\ NormalizerUnused
    /\ ValidateUnused
    /\ DiskCacheUnused
    /\ RequestCacheUnused
    /\ ExecUnused /\ CBUnused /\ RetryUnused /\ TokenBucketUnused /\ AdaptiveUnused
    /\ MemoryCacheUnused
    /\ NewSlidingWindow

NextSlidingWindow ==
    \/ \E p \in Callers : SWAcquire(p)
    \/ \E p \in Callers : SWLockGranted(p)
    \/ \E p \in Callers : SWSleepOver(p)
    \/ SWMonotonicAdvances

SpecSlidingWindow == InitSlidingWindow /\ [][NextSlidingWindow]_vars

(***************************************************************************)
(* AdaptiveRateLimiter (src/dataforge/core/rate_limiter.py, lines          *)
(* 158-225): the rate and its feedback                                     *)
(***************************************************************************)

RECURSIVE GCD(_, _)
GCD(a, b) == IF b = 0 THEN a ELSE GCD(b, a % b)

\* a fraction in lowest terms
Frac(n, d) == <<n \div GCD(n, d), d \div GCD(n, d)>>

\* q <= r on fractions
Leq(q, r) == q[1] * r[2] <= r[1] * q[2]

\* Python's min(a, b) and max(a, b)
FracMin(a, b) == IF Leq(a, b) THEN a ELSE b
FracMax(a, b) == IF Leq(b, a) THEN a ELSE b

\* line 203: min(self.max_rate, self.current_rate * self.increase_factor)
Increased == FracMin(max_rate, Frac(current_rate[1] * increase_factor, current_rate[2]))

\* line 208: max(self.min_rate, self.current_rate * self.decrease_factor)
Decreased ==
    FracMax(min_rate, Frac(current_rate[1] * decrease_factor[1],
                            current_rate[2] * decrease_factor[2]))

adConfig == <<min_rate, max_rate, increase_factor, decrease_factor>>

\* the state of acquire
adLimiter == <<ad_last_request, ad_lock, ad_waiters, ad_now, apc, adWakeAt, scope>>

\* the rate changes while a task sleeps in acquire
DuringSleep ==
    IF \E p \in Callers : apc[p] = "sleeping" /\ current_rate' # current_rate
      THEN [adAdmitted EXCEPT !.meanwhile = TRUE]
      ELSE adAdmitted

\* lines 201-204
on_success ==
    /\ feedbacks < MaxFeedback
    /\ current_rate' = Increased
    /\ feedbacks' = feedbacks + 1
    /\ adAdmitted' = DuringSleep
    /\ UNCHANGED <<adConfig, adLimiter, lastExit, notAdaptive>>

\* lines 206-213
on_error ==
    /\ feedbacks < MaxFeedback
    /\ current_rate' = Decreased
    /\ feedbacks' = feedbacks + 1
    /\ adAdmitted' = DuringSleep
    /\ UNCHANGED <<adConfig, adLimiter, lastExit, notAdaptive>>

\* a sleep that ends with the last whole second begun
Ceil_Down(n, d) == d \div n

\* the whole seconds in a span of d/n seconds, rounded up
Ceil(n, d) == (d + n - 1) \div n

\* acquire returns to task p: line 199 has stored the time
Admitted(p, asleep) ==
    [prev |-> adAdmitted.at, at |-> ad_now,
     rate |-> IF asleep THEN adAdmitted.read ELSE current_rate,
     read |-> <<1, 1>>,
     meanwhile |-> asleep /\ adAdmitted.meanwhile]

\* lines 190-197: the task that has entered _lock reads the clock; if less
\* than 1/current_rate has passed since _last_request it sleeps for the rest,
\* holding the lock, else it stores the time and returns. entering: the call
\* comes from __aenter__
AdEnter(p, entering) ==
    IF (ad_now - ad_last_request) * current_rate[1] < current_rate[2]
      THEN /\ ad_lock' = p
           /\ apc' = [apc EXCEPT ![p] = "sleeping"]
           /\ adWakeAt' = [adWakeAt EXCEPT
                              ![p] = ad_last_request + Ceil(current_rate[1], current_rate[2])]
           /\ ad_last_request' = ad_last_request
           /\ adAdmitted' = [adAdmitted EXCEPT !.read = current_rate, !.meanwhile = FALSE]
           /\ scope' = [scope EXCEPT ![p] = IF entering THEN "entering" ELSE @]
      ELSE /\ ad_lock' = 0
           /\ apc' = [apc EXCEPT ![p] = "idle"]
           /\ ad_last_request' = ad_now
           /\ adWakeAt' = adWakeAt
           /\ adAdmitted' = Admitted(p, FALSE)
           /\ scope' = [scope EXCEPT ![p] = IF entering THEN "inside" ELSE @]

\* lines 188-190: acquire() enters the free lock, or waits for it
AdAcquireAs(p, entering) ==
    /\ apc[p] = "idle"
    /\ scope[p] = "none"
    /\ IF ad_lock = 0 /\ ad_waiters = <<>>
         THEN /\ AdEnter(p, entering)
              /\ ad_waiters' = ad_waiters
         ELSE /\ ad_waiters' = Append(ad_waiters, p)
              /\ apc' = [apc EXCEPT ![p] = "waiting"]
              /\ scope' = [scope EXCEPT ![p] = IF entering THEN "entering" ELSE @]
              /\ UNCHANGED <<ad_last_request, ad_lock, adWakeAt, adAdmitted>>
    /\ UNCHANGED <<adConfig, current_rate, feedbacks, ad_now, lastExit, notAdaptive>>

\* lines 188-199: acquire() called by task p
AdAcquire(p) == AdAcquireAs(p, FALSE)

\* lines 215-218: __aenter__ awaits acquire()
aenter(p) == AdAcquireAs(p, TRUE)

\* line 190: the first task waiting for the released lock enters it
AdLockGranted(p) ==
    /\ apc[p] = "waiting"
    /\ ad_lock = 0
    /\ ad_waiters # <<>> /\ Head(ad_waiters) = p
    /\ ad_waiters' = Tail(ad_waiters)
    /\ AdEnter(p, scope[p] = "entering")
    /\ UNCHANGED <<adConfig, current_rate, feedbacks, ad_now, lastExit, notAdaptive>>

\* lines 197-199: asyncio.sleep(wait_time) is over; the task stores the time
\* and leaves the lock
AdSleepOver(p) ==
    /\ apc[p] = "sleeping"
    /\ ad_now >= adWakeAt[p]
    /\ ad_last_request' = ad_now
    /\ ad_lock' = 0
    /\ apc' = [apc EXCEPT ![p] = "idle"]
    /\ adAdmitted' = Admitted(p, TRUE)
    /\ scope' = [scope EXCEPT ![p] = IF @ = "entering" THEN "inside" ELSE @]
    /\ UNCHANGED <<adConfig, current_rate, feedbacks, ad_waiters, ad_now, adWakeAt,
                   lastExit, notAdaptive>>

\* how the body of `async with limiter` ends: it returns (exc_val is None) or
\* raises
BodyExits == {None, "ConnectorException"}

\* an __aexit__ that reports every exit as a success
ExitCalls_SuccessOnly(exc_val) == <<"on_success">>

\* lines 220-225: __aexit__ calls on_success() if exc_val is None, else
\* on_error()
ExitCalls(exc_val) == IF exc_val = None THEN <<"on_success">> ELSE <<"on_error">>

\* the rate after the calls of __aexit__, made one after the other
RECURSIVE RateAfter(_, _)
RateAfter(calls, rate) ==
    IF calls = <<>> THEN rate
    ELSE RateAfter(Tail(calls),
                   IF Head(calls) = "on_success"
                     THEN FracMin(max_rate, Frac(rate[1] * increase_factor, rate[2]))
                     ELSE FracMax(min_rate, Frac(rate[1] * decrease_factor[1],
                                                 rate[2] * decrease_factor[2])))

\* lines 220-225: the body of task p ends and __aexit__ runs; it returns None,
\* so an exception of the body goes on to the caller
aexit(p, exc_val) ==
    /\ scope[p] = "inside"
    /\ feedbacks < MaxFeedback
    /\ current_rate' = RateAfter(ExitCalls(exc_val), current_rate)
    /\ feedbacks' = feedbacks + 1
    /\ scope' = [scope EXCEPT ![p] = "none"]
    /\ lastExit' = [by |-> p, exc_val |-> exc_val, calls |-> ExitCalls(exc_val),
                    before |-> current_rate,
                    after |-> RateAfter(ExitCalls(exc_val), current_rate)]
    /\ adAdmitted' = DuringSleep
    /\ UNCHANGED <<adConfig, ad_last_request, ad_lock, ad_waiters, ad_now, apc, adWakeAt,
                   notAdaptive>>

\* time.monotonic() advances by one second
AdMonotonicAdvances ==
    /\ ad_now < MaxClock
    /\ ad_now' = ad_now + 1
    /\ UNCHANGED <<adConfig, current_rate, feedbacks, ad_last_request, ad_lock, ad_waiters,
                   apc, adWakeAt, adAdmitted, scope, lastExit, notAdaptive>>

\* lines 172-186: the constructor stores initial_rate, min_rate and max_rate
\* as given (here min_rate <= max_rate, increase_factor >= 1 and
\* decrease_factor <= 1); a min_rate of 0 stands for half a request per
\* second
NewAdaptive ==
    /\ \E lo \in 0..MaxRate, hi \in 1..MaxRate, r \in 1..(MaxRate + 1) :
           /\ lo <= hi
           /\ min_rate = (IF lo = 0 THEN <<1, 2>> ELSE <<lo, 1>>) /\ max_rate = <<hi, 1>>
           /\ current_rate = <<r, 1>>
    /\ increase_factor \in 1..MaxFactor
    /\ \E d \in 1..MaxFactor : decrease_factor = <<1, d>>
    /\ feedbacks = 0
    /\ ad_last_request = 0
    /\ ad_lock = 0
    /\ ad_waiters = <<>>
    \* _last_request is 0.0 whatever time.monotonic() is at construction
    /\ ad_now \in 0..1
    /\ apc = [p \in Callers |-> "idle"]
    /\ adWakeAt = [p \in Callers |-> 0]
    /\ adAdmitted = NotAdmitted
    /\ scope = [p \in Callers |-> "none"]
    /\ lastExit = NoExit

InitAdaptive ==
    /\ BackendsUnused
    /\ PolicyUnused
    /\ NormalizerUnused
    /\ ValidateUnused
    /\ DiskCacheUnused
    /\ RequestCacheUnused
    /\ ExecUnused /\ CBUnused /\ RetryUnused /\ TokenBucketUnused /\ SlidingWindowUnused
    /\ MemoryCacheUnused
    /\ NewAdaptive

NextAdaptive ==
    \/ on_success
    \/ on_error
    \/ \E p \in Callers : AdAcquire(p)
    \/ \E p \in Callers : AdLockGranted(p)
    \/ \E p \in Callers : AdSleepOver(p)
    \/ AdMonotonicAdvances

SpecAdaptive == InitAdaptive /\ [][NextAdaptive]_vars

\* the widest range of rates and the strongest adjustments
WidestRange ==
    /\ min_rate = <<1, 2>> /\ max_rate = <<MaxRate, 1>>
    /\ increase_factor = MaxFactor /\ decrease_factor = <<1, MaxFactor>>

\* a limiter with the widest range of rates, from every initial rate
InitAcquire == InitAdaptive /\ WidestRange

SpecAcquire == InitAcquire /\ [][NextAdaptive]_vars

\* tasks that use the limiter as `async with limiter:` only
NextScoped ==
    \/ \E p \in Callers : aenter(p)
    \/ \E p \in Callers : AdLockGranted(p)
    \/ \E p \in Callers : AdSleepOver(p)
    \/ \E p \in Callers, exc_val \in BodyExits : aexit(p, exc_val)
    \/ AdMonotonicAdvances

SpecScoped == InitAcquire /\ [][NextScoped]_vars

(***************************************************************************)
(* The three limiters behind one contract, acquire (rate_limiter.py, lines *)
(* 39-74, 117-146, 188-199), with the event loop running every task that   *)
(* is ready, and a circuit breaker changing state beside them              *)
(***************************************************************************)

Policies == {"token_bucket", "sliding_window", "adaptive"}

\* the caller is inside an acquire call
InAcquire(p) == tpc[p] # "idle" \/ spc[p] # "idle" \/ apc[p] # "idle"

\* a time by which every acquire of the token bucket has been served: each of
\* the MaxAcquires calls needs at most a whole bucket to be refilled
Horizon == MaxClock + MaxAcquires * tb_burst_size * tb_time_window

\* RateLimiter.acquire(k)
TBArrives(p, k) == policy = "token_bucket" /\ Acquire(p, k)

\* time.monotonic() advances while a task of the token bucket sleeps
TBTimePasses ==
    /\ policy = "token_bucket"
    /\ tb_now < Horizon
    /\ tb_now < MaxClock \/ \E p \in Callers : tpc[p] = "sleeping" /\ wakeAt[p] > tb_now
    /\ tb_now' = tb_now + 1
    /\ UNCHANGED <<tbConfig, tb_tokens, tb_last_update, tb_lock, tb_waiters, tpc, need,
                   wakeAt, calledAt, slept, grants, tbRaised, notTokenBucket>>

\* SlidingWindowRateLimiter.acquire()
SWArrives(p) == policy = "sliding_window" /\ SWAcquire(p)

\* time.monotonic() advances while a task of the sliding window sleeps
SWTimePasses ==
    /\ policy = "sliding_window"
    /\ sw_now < MaxClock \/ \E p \in Callers : spc[p] = "sleeping" /\ swWakeAt[p] > sw_now
    /\ sw_now' = sw_now + 1
    /\ UNCHANGED <<sw_max_requests, sw_time_window, sw_requests, sw_lock, sw_waiters,
                   spc, swWakeAt, admitted, notSlidingWindow>>

\* AdaptiveRateLimiter.acquire(), begun before MaxClock
ADArrives(p) == policy = "adaptive" /\ ad_now < MaxClock /\ AdAcquire(p)

\* the feedback of the requests made through the adaptive limiter
ADSucceeds == policy = "adaptive" /\ on_success
ADFails == policy = "adaptive" /\ on_error

\* time.monotonic() advances while a task of the adaptive limiter sleeps
ADTimePasses ==
    /\ policy = "adaptive"
    /\ ad_now < MaxClock \/ \E p \in Callers : apc[p] = "sleeping" /\ adWakeAt[p] > ad_now
    /\ ad_now' = ad_now + 1
    /\ UNCHANGED <<adConfig, current_rate, feedbacks, ad_last_request, ad_lock, ad_waiters,
                   apc, adWakeAt, adAdmitted, scope, lastExit, notAdaptive>>

\* forgeflow/core/retry.py, lines 166-212: a circuit breaker of the process
\* opens, half-opens or closes; the limiters hold no reference to it
BreakerChangesState ==
    /\ \E s \in {"closed", "open", "half_open"} :
           /\ <<state, s>> \in {<<"closed", "open">>, <<"open", "half_open">>,
                                <<"half_open", "closed">>, <<"half_open", "open">>}
           /\ state' = s
    /\ UNCHANGED <<failure_threshold, recovery_timeout, failure_count, last_failure_time,
                   now, cpc, role, besideProbe, streak, calledSince, nextCall, probeEnded,
                   callEnd, sinceFailure,
                   notBreaker>>

\* one of the three limiters is constructed; the adaptive one with factors
\* that change its rate
InitLimiters ==
    /\ BackendsUnused
    /\ ExecUnused /\ CBUnused /\ RetryUnused /\ MemoryCacheUnused /\ RequestCacheUnused
    /\ DiskCacheUnused /\ ValidateUnused /\ NormalizerUnused
    /\ policy \in Policies
    /\ IF policy = "token_bucket" THEN NewTokenBucket ELSE TokenBucketUnused
    /\ IF policy = "sliding_window" THEN NewSlidingWindow ELSE SlidingWindowUnused
    /\ IF policy = "adaptive"
         THEN NewAdaptive /\ WidestRange
         ELSE AdaptiveUnused

NextLimiters ==
    \/ \E p \in Callers, k \in 1..MaxTokens : TBArrives(p, k)
    \/ \E p \in Callers : LockGranted(p)
    \/ \E p \in Callers : SleepOver(p)
    \/ TBTimePasses
    \/ \E p \in Callers : SWArrives(p)
    \/ \E p \in Callers : SWLockGranted(p)
    \/ \E p \in Callers : SWSleepOver(p)
    \/ SWTimePasses
    \/ \E p \in Callers : ADArrives(p)
    \/ \E p \in Callers : AdLockGranted(p)
    \/ \E p \in Callers : AdSleepOver(p)
    \/ ADSucceeds
    \/ ADFails
    \/ ADTimePasses
    \/ BreakerChangesState

\* a task that was waiting for the lock or sleeping goes on; at any time at
\* most one task of a limiter can: the task that holds the lock when its sleep
\* is over, or the first task waiting for the lock when it is free
Resumes ==
    \E p \in Callers :
        \/ LockGranted(p) \/ SleepOver(p)
        \/ SWLockGranted(p) \/ SWSleepOver(p)
        \/ AdLockGranted(p) \/ AdSleepOver(p)

TimePasses == TBTimePasses \/ SWTimePasses \/ ADTimePasses

\* the event loop runs the task that is ready, and the clock does not stop
EventLoop == WF_vars(Resumes) /\ WF_vars(TimePasses)

SpecLimiters == InitLimiters /\ [][NextLimiters]_vars /\ EventLoop

(***************************************************************************)
(* MemoryCache (src/dataforge/core/cache.py, lines 38-128). Every method   *)
(* holds _lock and never suspends while holding it, so each call is one    *)
(* step, whatever the tasks that make the calls                            *)
(***************************************************************************)

\* the keys in use: one more than the largest max_entries, so that a full
\* cache of two entries meets a new key
Keys == {"a", "b", "c"}
Values == 1..MaxValues

\* list.remove(key): the list without the first occurrence of key (a key of
\* _cache is in _access_order, so remove finds it)
RECURSIVE Remove(_, _)
Remove(order, key) ==
    IF order = <<>> THEN <<>>
    ELSE IF Head(order) = key THEN Tail(order)
    ELSE <<Head(order)>> \o Remove(Tail(order), key)

\* an index in which a key that is present keeps its place
Touched_KeepsPlace(order, key) ==
    IF \E j \in 1..Len(order) : order[j] = key THEN order ELSE Append(order, key)

\* an index in which the key moves to the front
Touched_ToFront(order, key) == <<key>> \o Remove(order, key)

\* lines 77-79 and 100-102: the key moves to the end of _access_order
Touched(order, key) == Append(Remove(order, key), key)

\* del self._cache[key]
Without(c, key) == [k \in (DOMAIN c) \ {key} |-> c[k]]

\* a cache whose entries never expire
Expired_Never(timestamp) == FALSE

\* line 70: ttl is not None and (time.time() - timestamp) > ttl
Expired(timestamp) == ttl # NoTtl /\ (mc_now - timestamp) > ttl

\* a set that evicts only once the cache is over capacity
MustEvict_Late(key) == Cardinality(DOMAIN cache) > max_entries /\ key \notin DOMAIN cache

\* line 93: at capacity and the key is new
MustEvict(key) == Cardinality(DOMAIN cache) >= max_entries /\ key \notin DOMAIN cache

\* a set that keeps the timestamp of the entry it replaces
Stamp_OfFirstSet(key) == IF key \in DOMAIN cache THEN cache[key].timestamp ELSE mc_now

\* line 98: the timestamp stored by set
Stamp(key) == mc_now

mcConfig == <<ttl, max_entries>>

\* the keys still cached after the call, least recently used first, once the
\* call has used key successfully (a hit of get, a set) or not
Used(key) ==
    SelectSeq(SelectSeq(recency, LAMBDA k : k # key) \o <<key>>,
              LAMBDA k : k \in DOMAIN cache')
NotUsed == SelectSeq(recency, LAMBDA k : k \in DOMAIN cache')

\* lines 53-82: get(key); result is what the call returns
GetResult(key) ==
    IF key \notin DOMAIN cache \/ Expired(cache[key].timestamp)
      THEN Absent
      ELSE cache[key].value

MemoryGet(key) ==
    /\ IF key \notin DOMAIN cache
         THEN UNCHANGED <<cache, access_order>>
         ELSE IF Expired(cache[key].timestamp)
           THEN /\ cache' = Without(cache, key)
                /\ access_order' = Remove(access_order, key)
           ELSE /\ cache' = cache
                /\ access_order' = Touched(access_order, key)
    /\ roundTrip' = IF lastSet # NoSet /\ lastSet.key = key
                      THEN [expected |-> lastSet.value, got |-> GetResult(key),
                            age |-> mc_now - lastSet.at, evicted |-> lastSet.evicted,
                            replaced |-> lastSet.replaced]
                      ELSE NoTrip
    /\ lastSet' = NoSet
    /\ lastGet' = [key |-> key, got |-> GetResult(key)]
    /\ recency' = IF GetResult(key) # Absent THEN Used(key) ELSE NotUsed

Get(key) ==
    /\ MemoryGet(key)
    /\ UNCHANGED <<mcConfig, mc_now, notMemoryCache>>

\* lines 84-104: set(key, value)
MemorySet(key, value) ==
    /\ LET kept == IF MustEvict(key) THEN Without(cache, Head(access_order)) ELSE cache
           order == IF MustEvict(key) THEN Tail(access_order) ELSE access_order
       IN  /\ cache' = [k \in (DOMAIN kept) \cup {key} |->
                           IF k = key THEN [value |-> value, timestamp |-> Stamp(key)]
                                      ELSE kept[k]]
           /\ access_order' = Touched(order, key)
    /\ lastSet' = [key |-> key, value |-> value, at |-> mc_now,
                   evicted |-> MustEvict(key), replaced |-> key \in DOMAIN cache]
    /\ roundTrip' = NoTrip
    /\ lastGet' = NoGet
    /\ recency' = Used(key)

Set(key, value) ==
    /\ MemorySet(key, value)
    /\ UNCHANGED <<mcConfig, mc_now, notMemoryCache>>

\* lines 106-111: clear()
MemoryClear ==
    /\ cache' = EmptyCache
    /\ access_order' = <<>>
    /\ lastSet' = NoSet
    /\ roundTrip' = NoTrip
    /\ lastGet' = NoGet
    /\ recency' = NotUsed

Clear ==
    /\ MemoryClear
    /\ UNCHANGED <<mcConfig, mc_now, notMemoryCache>>

\* lines 113-128: delete(key)
MemoryDelete(key) ==
    /\ IF key \in DOMAIN cache
         THEN /\ cache' = Without(cache, key)
              /\ access_order' = Remove(access_order, key)
         ELSE UNCHANGED <<cache, access_order>>
    /\ lastSet' = NoSet
    /\ roundTrip' = NoTrip
    /\ lastGet' = NoGet
    /\ recency' = NotUsed

Delete(key) ==
    /\ MemoryDelete(key)
    /\ UNCHANGED <<mcConfig, mc_now, notMemoryCache>>

\* time.time() advances
TimeAdvances ==
    /\ mc_now < MaxCacheTime
    /\ mc_now' = mc_now + 1
    /\ UNCHANGED <<mcConfig, cache, access_order, lastSet, roundTrip, lastGet, recency,
                   notMemoryCache>>

\* lines 46-51: MemoryCache(ttl, max_entries) with max_entries >= 1; a cache
\* that holds more than all the keys never evicts
InitMemoryCache ==
    /\ BackendsUnused
    /\ PolicyUnused
    /\ NormalizerUnused
    /\ ValidateUnused
    /\ DiskCacheUnused
    /\ RequestCacheUnused
    /\ ExecUnused /\ CBUnused /\ RetryUnused /\ TokenBucketUnused /\ SlidingWindowUnused
    /\ AdaptiveUnused
    /\ ttl \in {NoTtl} \cup (0..MaxTtl)
    /\ max_entries \in 1..Cardinality(Keys)
    /\ cache = EmptyCache
    /\ access_order = <<>>
    /\ mc_now = 0
    /\ lastSet = NoSet
    /\ roundTrip = NoTrip
    /\ lastGet = NoGet
    /\ recency = <<>>

NextMemoryCache ==
    \/ \E key \in Keys : Get(key)
    \/ \E key \in Keys, value \in Values : Set(key, value)
    \/ Clear
    \/ \E key \in Keys : Delete(key)
    \/ TimeAdvances

SpecMemoryCache == InitMemoryCache /\ [][NextMemoryCache]_vars

(***************************************************************************)
(* RequestCache (src/dataforge/core/cache.py, lines 231-284) over the      *)
(* memory backend, with fewer keys than the backend's max_entries of 1000  *)
(***************************************************************************)

Urls == {"u1", "u2"}

\* parameter names, numbered in the order in which sort_keys sorts them
ParamNames == {1, 2}
ParamValue == "v"

\* the responses that are stored
Responses == {"r1", "r2"}

\* the params argument: the pairs of a dict in the order of their insertion;
\* <<>> is None or {}, both falsy
ParamInputs ==
    {<<>>} \cup {<<<<n, ParamValue>>>> : n \in ParamNames}
           \cup {<<<<n, ParamValue>>, <<m, ParamValue>>>> : <<n, m>> \in
                    {q \in ParamNames \X ParamNames : q[1] # q[2]}}

\* the mapping that a params argument denotes
Mapping(params) == {params[j] : j \in 1..Len(params)}

\* the pair put at its place in a list of pairs sorted by name
RECURSIVE Inserted(_, _)
Inserted(pair, sorted) ==
    IF sorted = <<>> THEN <<pair>>
    ELSE IF pair[1] <= Head(sorted)[1] THEN <<pair>> \o sorted
    ELSE <<Head(sorted)>> \o Inserted(pair, Tail(sorted))

\* json.dumps(params, sort_keys=True): the pairs in the order of their names
RECURSIVE Dumps(_)
Dumps(params) ==
    IF params = <<>> THEN <<>> ELSE Inserted(Head(params), Dumps(Tail(params)))

\* a key made of the parameters as they were supplied
make_key_Unsorted(url, params) == IF params # <<>> THEN <<url, params>> ELSE <<url>>

\* lines 251-256: "|".join([url, json.dumps(params, sort_keys=True)]), or url
\* alone when params is falsy
make_key(url, params) == IF params # <<>> THEN <<url, Dumps(params)>> ELSE <<url>>

\* the backend's test of line 70
RCExpired(timestamp) == rc_ttl # NoTtl /\ (rc_now - timestamp) > rc_ttl

\* lines 258-269: get(url, params), through MemoryCache.get
RCGet(url, params) ==
    /\ rc_calls < MaxRequestCalls
    /\ rc_calls' = rc_calls + 1
    /\ LET key == make_key(url, params)
       IN  IF key \notin DOMAIN rc_store
             THEN /\ rc_store' = rc_store
                  /\ rc_last' = [op |-> "get", url |-> url, params |-> params,
                                 got |-> None, at |-> rc_now]
             ELSE IF RCExpired(rc_store[key].timestamp)
               THEN /\ rc_store' = Without(rc_store, key)
                    /\ rc_last' = [op |-> "get", url |-> url, params |-> params,
                                   got |-> None, at |-> rc_now]
               ELSE /\ rc_store' = rc_store
                    /\ rc_last' = [op |-> "get", url |-> url, params |-> params,
                                   got |-> rc_store[key].value, at |-> rc_now]
    /\ UNCHANGED <<rc_ttl, rc_now, logical, notRequestCache>>

\* lines 271-280: set(url, response, params), through MemoryCache.set
RCSet(url, response, params) ==
    /\ rc_calls < MaxRequestCalls
    /\ rc_calls' = rc_calls + 1
    /\ LET key == make_key(url, params)
       IN  rc_store' = [k \in (DOMAIN rc_store) \cup {key} |->
                           IF k = key THEN [value |-> response, timestamp |-> rc_now]
                                      ELSE rc_store[k]]
    /\ LET id == <<url, Mapping(params)>>
       IN  logical' = [q \in (DOMAIN logical) \cup {id} |->
                          IF q = id THEN [response |-> response, at |-> rc_now,
                                          params |-> params]
                                    ELSE logical[q]]
    /\ rc_last' = NoCall
    /\ UNCHANGED <<rc_ttl, rc_now, notRequestCache>>

\* lines 282-284: clear()
RCClear ==
    /\ rc_calls < MaxRequestCalls
    /\ rc_calls' = rc_calls + 1
    /\ rc_store' = EmptyCache
    /\ logical' = EmptyCache
    /\ rc_last' = NoCall
    /\ UNCHANGED <<rc_ttl, rc_now, notRequestCache>>

\* time.time() advances
RCTimeAdvances ==
    /\ rc_now < MaxCacheTime
    /\ rc_now' = rc_now + 1
    /\ UNCHANGED <<rc_ttl, rc_store, rc_calls, rc_last, logical, notRequestCache>>

\* lines 238-242: RequestCache(CacheConfig(ttl=...)), backend "memory"
InitRequestCache ==
    /\ BackendsUnused
    /\ PolicyUnused
    /\ NormalizerUnused
    /\ ValidateUnused
    /\ DiskCacheUnused
    /\ ExecUnused /\ CBUnused /\ RetryUnused /\ TokenBucketUnused /\ SlidingWindowUnused
    /\ AdaptiveUnused /\ MemoryCacheUnused
    /\ rc_ttl \in {NoTtl} \cup (0..MaxTtl)
    /\ rc_store = EmptyCache
    /\ rc_now = 0
    /\ rc_calls = 0
    /\ rc_last = NoCall
    /\ logical = EmptyCache

NextRequestCache ==
    \/ \E url \in Urls, params \in ParamInputs : RCGet(url, params)
    \/ \E url \in Urls, response \in Responses, params \in ParamInputs :
           RCSet(url, response, params)
    \/ RCClear
    \/ RCTimeAdvances

SpecRequestCache == InitRequestCache /\ [][NextRequestCache]_vars

(***************************************************************************)
(* DiskCache (src/dataforge/core/cache.py, lines 131-228)                  *)
(***************************************************************************)

DiskKeys == {"a", "b"}

\* what a file of cache_dir can hold besides an entry written by set:
\*   not_json     text that json.load rejects (JSONDecodeError)
\*   not_text     bytes that are not text in the encoding (UnicodeDecodeError)
\*   not_object   a JSON value that is not an object, as [1, 2] or 5
\*   bad_stamp    a JSON object whose timestamp is not a number
\*   unopenable   a file whose open fails (OSError)
CorruptKinds == {"not_json", "not_text", "not_object", "bad_stamp", "unopenable"}

Entry(value, timestamp) == [kind |-> "entry", value |-> value, timestamp |-> timestamp]
Corrupt(kind) == [kind |-> kind, value |-> Absent, timestamp |-> 0]

\* the test of line 173
DCExpired(timestamp) == dc_ttl # NoTtl /\ (dc_now - timestamp) > dc_ttl

\* a get that returned
Returned(key, file, got) ==
    [op |-> "get", key |-> key, found |-> file.kind, outcome |-> "returned", got |-> got]

\* a get that raised
RaisedFrom(key, file, error) ==
    [op |-> "get", key |-> key, found |-> file.kind, outcome |-> error, got |-> Absent]

\* lines 159-183: what get does with the file of the key. Line 181 catches
\* JSONDecodeError and OSError only
DiskGetResult(key, file) ==
    CASE file.kind = "missing"    -> Returned(key, file, Absent)
      [] file.kind = "unopenable" -> Returned(key, file, Absent)
      [] file.kind = "not_json"   -> Returned(key, file, Absent)
      [] file.kind = "not_text"   -> RaisedFrom(key, file, "UnicodeDecodeError")
      [] file.kind = "not_object" -> RaisedFrom(key, file, "AttributeError")
      [] file.kind = "bad_stamp"  ->
            IF dc_ttl # NoTtl THEN RaisedFrom(key, file, "TypeError")
                              ELSE Returned(key, file, Absent)
      [] file.kind = "entry"      ->
            IF DCExpired(file.timestamp) THEN Returned(key, file, Absent)
                                         ELSE Returned(key, file, file.value)

\* lines 150-183: get(key); an expired entry is unlinked
DiskGet(key) ==
    /\ dc_last' = DiskGetResult(key, files[key])
    /\ files' = IF files[key].kind = "entry" /\ DCExpired(files[key].timestamp)
                  THEN [files EXCEPT ![key] = NoFile]
                  ELSE files

DCGet(key) ==
    /\ DiskGet(key)
    /\ UNCHANGED <<dc_ttl, dc_now, notDiskCache>>

\* the values that a caller may cache (value: Any) besides Values, which json
\* writes and reads back equal: a tuple, as (1, 2), the list that json reads
\* back for it, [1, 2], and a value that json.dump rejects with TypeError, as
\* a datetime, a set or a mapping that holds one
TupleValue == MaxValues + 1
ListValue == MaxValues + 2
DatetimeValue == MaxValues + 3
AnyValues == Values \cup {TupleValue, ListValue, DatetimeValue}

\* a json.dump that writes every value
Serializable_Always(value) == TRUE

\* json.dump(data, f) of line 199 writes the value
Serializable(value) == value # DatetimeValue

\* what json.load reads from the text that json.dump wrote for the value
Loaded(value) == IF value = TupleValue THEN ListValue ELSE value

\* lines 185-204: set(key, value). open("w") empties the file and json.dump
\* writes it piece by piece: a TypeError, caught at line 203, leaves the
\* beginning of an object, as `{"value": {"t": `, in place of the entry. The
\* OSError of a file that cannot be opened is caught and the file is left as
\* it is
DiskSet(key, value) ==
    /\ files' = IF files[key].kind = "unopenable"
                  THEN files
                  ELSE IF Serializable(value)
                    THEN [files EXCEPT ![key] = Entry(Loaded(value), dc_now)]
                    ELSE [files EXCEPT ![key] = Corrupt("not_json")]
    /\ dc_last' = NoDiskGet

DCSet(key, value) ==
    /\ DiskSet(key, value)
    /\ UNCHANGED <<dc_ttl, dc_now, notDiskCache>>

\* lines 206-211: clear()
DiskClear ==
    /\ files' = [k \in DiskKeys |-> NoFile]
    /\ dc_last' = NoDiskGet

DCClear ==
    /\ DiskClear
    /\ UNCHANGED <<dc_ttl, dc_now, notDiskCache>>

\* lines 213-228: delete(key)
DiskDelete(key) ==
    /\ files' = [files EXCEPT ![key] = NoFile]
    /\ dc_last' = NoDiskGet

DCDelete(key) ==
    /\ DiskDelete(key)
    /\ UNCHANGED <<dc_ttl, dc_now, notDiskCache>>

\* another program truncates, overwrites or locks the file of a key
FileDamaged(key, kind) ==
    /\ files[key].kind # "missing"
    /\ files' = [files EXCEPT ![key] = Corrupt(kind)]
    /\ dc_last' = NoDiskGet
    /\ UNCHANGED <<dc_ttl, dc_now, notDiskCache>>

\* time.time() advances
DCTimeAdvances ==
    /\ dc_now < MaxCacheTime
    /\ dc_now' = dc_now + 1
    /\ UNCHANGED <<dc_ttl, files, dc_last, notDiskCache>>

\* lines 139-143: DiskCache(cache_dir, ttl) over an empty directory
InitDiskCache ==
    /\ BackendsUnused
    /\ PolicyUnused
    /\ NormalizerUnused
    /\ ValidateUnused
    /\ ExecUnused /\ CBUnused /\ RetryUnused /\ TokenBucketUnused /\ SlidingWindowUnused
    /\ AdaptiveUnused /\ MemoryCacheUnused /\ RequestCacheUnused
    /\ dc_ttl \in {NoTtl} \cup (0..MaxTtl)
    /\ files = [k \in DiskKeys |-> NoFile]
    /\ dc_now = 0
    /\ dc_last = NoDiskGet

NextDiskCache ==
    \/ \E key \in DiskKeys : DCGet(key)
    \/ \E key \in DiskKeys, value \in Values : DCSet(key, value)
    \/ DCClear
    \/ \E key \in DiskKeys : DCDelete(key)
    \/ \E key \in DiskKeys, kind \in CorruptKinds : FileDamaged(key, kind)
    \/ DCTimeAdvances

SpecDiskCache == InitDiskCache /\ [][NextDiskCache]_vars

(***************************************************************************)
(* A MemoryCache and a DiskCache with the same ttl, read on the same       *)
(* clock, that receive the same calls over fewer keys than max_entries     *)
(***************************************************************************)

\* what a call returned
Result(got) == [outcome |-> "returned", got |-> got]

\* what the get of the disk backend returned, or the exception it raised
DiskResult(key) ==
    [outcome |-> DiskGetResult(key, files[key]).outcome,
     got |-> DiskGetResult(key, files[key]).got]

\* get(key) on both
BothGet(key) ==
    /\ MemoryGet(key)
    /\ DiskGet(key)
    /\ both' = [op |-> "get", key |-> key, value |-> Absent, plain |-> both.plain,
                memory |-> Result(GetResult(key)), disk |-> DiskResult(key)]
    /\ UNCHANGED <<mcConfig, mc_now, dc_ttl, dc_now, notBackends>>

\* set(key, value) on both; set returns None
BothSet(key, value) ==
    /\ MemorySet(key, value)
    /\ DiskSet(key, value)
    /\ both' = [op |-> "set", key |-> key, value |-> value,
                plain |-> both.plain /\ value \in Values,
                memory |-> Result(Absent), disk |-> Result(Absent)]
    /\ UNCHANGED <<mcConfig, mc_now, dc_ttl, dc_now, notBackends>>

\* clear() on both; clear returns None
BothClear ==
    /\ MemoryClear
    /\ DiskClear
    /\ both' = [op |-> "clear", key |-> None, value |-> Absent, plain |-> both.plain,
                memory |-> Result(Absent), disk |-> Result(Absent)]
    /\ UNCHANGED <<mcConfig, mc_now, dc_ttl, dc_now, notBackends>>

\* delete(key) on both: lines 124-128 and 224-228, True when the key, or its
\* file, was there
BothDelete(key) ==
    /\ MemoryDelete(key)
    /\ DiskDelete(key)
    /\ both' = [op |-> "delete", key |-> key, value |-> Absent, plain |-> both.plain,
                memory |-> Result(key \in DOMAIN cache),
                disk |-> Result(files[key].kind # "missing")]
    /\ UNCHANGED <<mcConfig, mc_now, dc_ttl, dc_now, notBackends>>

\* time.time() advances, for both
BothTimeAdvances ==
    /\ mc_now < MaxCacheTime
    /\ mc_now' = mc_now + 1
    /\ dc_now' = dc_now + 1
    /\ UNCHANGED <<ttl, max_entries, cache, access_order, lastSet, roundTrip, lastGet,
                   recency, dc_ttl, files, dc_last, both, notBackends>>

\* MemoryCache(ttl, max_entries) and DiskCache(cache_dir, ttl) over an empty
\* directory, with more room in the memory backend than there are keys
InitBackends ==
    /\ PolicyUnused
    /\ NormalizerUnused
    /\ ValidateUnused
    /\ ExecUnused /\ CBUnused /\ RetryUnused /\ TokenBucketUnused /\ SlidingWindowUnused
    /\ AdaptiveUnused /\ RequestCacheUnused
    /\ ttl \in {NoTtl} \cup (0..MaxTtl)
    /\ max_entries = Cardinality(DiskKeys) + 1
    /\ cache = EmptyCache
    /\ access_order = <<>>
    /\ mc_now = 0
    /\ lastSet = NoSet
    /\ roundTrip = NoTrip
    /\ lastGet = NoGet
    /\ recency = <<>>
    /\ dc_ttl = ttl
    /\ files = [k \in DiskKeys |-> NoFile]
    /\ dc_now = 0
    /\ dc_last = NoDiskGet
    /\ both = NoCalls

NextBackends ==
    \/ \E key \in DiskKeys : BothGet(key)
    \/ \E key \in DiskKeys, value \in AnyValues : BothSet(key, value)
    \/ BothClear
    \/ \E key \in DiskKeys : BothDelete(key)
    \/ BothTimeAdvances

SpecBackends == InitBackends /\ [][NextBackends]_vars

(***************************************************************************)
(* PipelineLoader.validate_pipeline (src/forgeflow/pipeline/loader.py,     *)
(* lines 26-38)                                                            *)
(***************************************************************************)

\* line 28
required == <<"name", "connector", "transformer", "sinks">>

RequiredKeys == {required[j] : j \in 1..Len(required)}

\* the values of the key sinks: lists, strings and mappings of some length, None
SinksValues ==
    {[type |-> t, len |-> n] : t \in {"list", "str", "dict"}, n \in 0..MaxSinks}
        \cup {[type |-> "NoneType", len |-> 0]}

\* the pipelines: the required keys that the mapping has, and the value of its
\* key sinks when it has one
Pipelines ==
    {[keys |-> ks, sinks |-> v] : ks \in SUBSET RequiredKeys, v \in SinksValues}

\* only the first of the keys that are not in the pipeline
Missing_First(p) ==
    LET all == SelectSeq(required, LAMBDA key : key \notin p.keys)
    IN  IF all = <<>> THEN <<>> ELSE <<Head(all)>>

\* line 29: [key for key in required if key not in pipeline]
Missing(p) == SelectSeq(required, LAMBDA key : key \notin p.keys)

ConfigurationException(text, fields) ==
    [outcome |-> "ConfigurationException", text |-> text, fields |-> fields]

\* lines 27-38
validate_pipeline(p) ==
    IF Missing(p) # <<>>
      THEN ConfigurationException("Pipeline missing required fields", Missing(p))
    ELSE IF p.sinks.type # "list"
      THEN ConfigurationException("Sinks must be a list", <<>>)
    ELSE IF p.sinks.len = 0
      THEN ConfigurationException("Pipeline must have at least one sink", <<>>)
    ELSE [outcome |-> "returned", text |-> None, fields |-> <<>>]

Validate ==
    /\ validated = NotValidated
    /\ validated' = validate_pipeline(pipeline)
    /\ UNCHANGED <<pipeline, notValidate>>

InitValidate ==
    /\ BackendsUnused
    /\ PolicyUnused
    /\ NormalizerUnused
    /\ ExecUnused /\ CBUnused /\ RetryUnused /\ TokenBucketUnused /\ SlidingWindowUnused
    /\ AdaptiveUnused /\ MemoryCacheUnused /\ RequestCacheUnused /\ DiskCacheUnused
    /\ pipeline \in Pipelines
    /\ validated = NotValidated

NextValidate == Validate

SpecValidate == InitValidate /\ [][NextValidate]_vars

(***************************************************************************)
(* JsonNormalizer (src/dataforge/transformers/json_normalizer.py)          *)
(***************************************************************************)

\* the value of datetime.now(timezone.utc).isoformat()
Timestamp == -1

OuterKeys == {"a", "b", "a_b", "_ingested_at"}
InnerKeys == {"a", "b"}
LeafValues == {1, 2}

\* an item of a mapping: a key with a value that is not a mapping (a number, a
\* string, a list: lines 33-36 treat them alike), or a key with a mapping
Leaf(key, value) == [key |-> key, leaf |-> TRUE, value |-> value, children |-> <<>>]
Nested(key, children) == [key |-> key, leaf |-> FALSE, value |-> 0, children |-> children]

\* the mappings with the given keys: their items in the order of insertion,
\* no key twice
MappingsOf(keys, values, maxLen) ==
    UNION {{m \in [1..n -> {[key |-> k, leaf |-> v.leaf, value |-> v.value,
                              children |-> v.children] : k \in keys, v \in values}] :
               \A x, y \in 1..n : x # y => m[x].key # m[y].key} : n \in 0..maxLen}

LeafOnly == {[leaf |-> TRUE, value |-> v, children |-> <<>>] : v \in LeafValues}

InnerMappings == MappingsOf(InnerKeys, LeafOnly, Cardinality(InnerKeys))

OuterValues ==
    LeafOnly \cup {[leaf |-> FALSE, value |-> 0, children |-> m] : m \in InnerMappings}

\* the arguments of transform: mappings nested once, and a value that is not
\* a mapping
DataInputs ==
    {[type |-> "dict", items |-> m] : m \in MappingsOf(OuterKeys, OuterValues, MaxFields)}
        \cup {[type |-> "str", items |-> <<>>]}

HasKey(d, key) == \E j \in 1..Len(d) : d[j].key = key

\* d[item.key] = item.value on a dict: the place of a key already there is kept
SetItem(d, item) ==
    IF HasKey(d, item.key)
      THEN [j \in 1..Len(d) |-> IF d[j].key = item.key THEN item ELSE d[j]]
      ELSE Append(d, item)

\* dict(items): of two items with one key the later value stays
RECURSIVE Dict(_)
Dict(items) ==
    IF items = <<>> THEN <<>>
    ELSE SetItem(Dict(SubSeq(items, 1, Len(items) - 1)), items[Len(items)])

\* lines 27-28: f"{parent_key}{sep}{key}" if parent_key else key
NewKey(parent_key, key) == IF parent_key # "" THEN parent_key \o "_" \o key ELSE key

\* lines 25-36: the list items that _flatten_dict collects
RECURSIVE FlatItems(_, _)
FlatItems(data, parent_key) ==
    IF data = <<>> THEN <<>>
    ELSE LET item == Head(data)
             new_key == NewKey(parent_key, item.key)
         IN  (IF ~item.leaf THEN Dict(FlatItems(item.children, new_key))
                            ELSE <<Leaf(new_key, item.value)>>)
                 \o FlatItems(Tail(data), parent_key)

\* lines 22-38
flatten_dict(data) == Dict(FlatItems(data, ""))

\* lines 15-17: the timestamp field of the configuration, added when absent
WithTimestampField(normalized) ==
    IF jn_config.timestamp_field # None /\ ~HasKey(normalized, jn_config.timestamp_field)
      THEN SetItem(normalized, Leaf(jn_config.timestamp_field, Timestamp))
      ELSE normalized

\* lines 9-20
transform ==
    IF jn_data.type # "dict"
      THEN [outcome |-> "TransformerException", normalized |-> <<>>]
      ELSE LET normalized == IF jn_config.flatten THEN flatten_dict(jn_data.items)
                                                  ELSE jn_data.items
           IN  [outcome |-> "returned",
                normalized |-> SetItem(WithTimestampField(normalized),
                                       Leaf("_ingested_at", Timestamp))]

\* line 13: with flatten disabled `normalized` is the argument itself, not a
\* copy of it; _flatten_dict returns a new dict
Aliased == jn_data.type = "dict" /\ ~jn_config.flatten

\* lines 15-19: the items assigned to `normalized` are assigned to the object
\* that it names
ArgumentAfter ==
    IF Aliased THEN [jn_data EXCEPT !.items = transform.normalized] ELSE jn_data

CallTransform ==
    /\ jn_result = NotTransformed
    /\ jn_result' = transform
    /\ jn_object' = ArgumentAfter
    /\ UNCHANGED <<jn_config, jn_data, notNormalizer>>

InitNormalizer ==
    /\ BackendsUnused
    /\ PolicyUnused
    /\ ExecUnused /\ CBUnused /\ RetryUnused /\ TokenBucketUnused /\ SlidingWindowUnused
    /\ AdaptiveUnused /\ MemoryCacheUnused /\ RequestCacheUnused /\ DiskCacheUnused
    /\ ValidateUnused
    /\ jn_config \in [flatten : BOOLEAN, timestamp_field : {None, "created_at"}]
    /\ jn_data \in DataInputs
    /\ jn_result = NotTransformed
    /\ jn_object = jn_data

NextNormalizer == CallTransform

SpecNormalizer == InitNormalizer /\ [][NextNormalizer]_vars

\* ------------------------------------------------------------------------
\* CircuitBreaker: the claims
\* ------------------------------------------------------------------------

\* C11: failure_count is the number of matching failures since the last
\* successful call (a success resets it to 0, a matching failure adds one); the
\* breaker leaves closed only to open, only when that run of failures has
\* reached failure_threshold, recording the failure time; a run shorter than
\* failure_threshold leaves a closed breaker closed.
C11_ClosedUntilThresholdConsecutiveFailures ==
    /\ failure_count = streak
    /\ [][/\ failure_count' = streak'
          /\ (state = "closed" /\ state' # "closed")
                => /\ state' = "open"
                   /\ streak' = streak + 1
                   /\ streak' >= failure_threshold
                   /\ last_failure_time' = now
          /\ (state = "closed" /\ streak' < failure_threshold)
                => state' = "closed"]_vars

\* two failures in a row have opened a breaker of threshold two or more
C11_Witness ==
    /\ state = "open"
    /\ failure_threshold > 1
    /\ streak = failure_threshold
    /\ last_failure_time = now

\* the attempts made so far
Attempts == 1..Len(attemptLog)

Raised(j) == attemptLog[j].status = "raised"

\* attempt j is the last one: retry_async raised its exception and neither
\* slept nor attempted again
PropagatedAtOnce(j) ==
    /\ j = Len(attemptLog)
    /\ rpc = "done"
    /\ rresult = [status |-> "raised", error |-> attemptLog[j].error]
    /\ Len(waits) = j - 1

\* C12: an attempt that the open circuit rejected is the last attempt:
\* retry_async raises the rejection without sleeping or attempting again,
\* with the default retry_on as with one listing the operation's own kinds.
C12_RejectionIsNotRetried ==
    \A j \in Attempts : attemptLog[j].error.rejected => PropagatedAtOnce(j)

C14_NonMatchingErrorPropagatesAtOnce ==
    \A j \in Attempts :
        (Raised(j) /\ attemptLog[j].error.kind \notin retry_on /\ "Exception" \notin retry_on)
            => PropagatedAtOnce(j)

\* a ValueError ended a retry that had two attempts left
C14_Witness ==
    /\ rpc = "done"
    /\ max_attempts = 3
    /\ retry_on = {"ConnectorException"}
    /\ Len(attemptLog) = 1
    /\ attemptLog[1].error.kind = "ValueError"
    /\ rresult.status = "raised"

\* one sleep precedes every attempt but the first
OneWaitPerLaterAttempt ==
    Len(waits) = IF rpc \in {"iter", "sleeping"} THEN attempt ELSE attempt - 1

\* C15 as stated: attempt 1 runs with no wait and the wait before attempt k
\* (k >= 2) is min(maxWait, minWait * multiplier^(k-1)), for every policy.
C15_WaitIsMinWaitTimesPowerOfMultiplier ==
    /\ OneWaitPerLaterAttempt
    /\ \A k \in 2..(Len(waits) + 1) :
           waits[k - 1] = Min(max_wait, min_wait * Pow(multiplier, k - 1))

\* C15 amended: attempt 1 runs with no wait and the wait before attempt k
\* (k >= 2) is multiplier * 2^(k-2) clamped to [minWait, maxWait], that is
\* max(minWait, min(maxWait, multiplier * 2^(k-2))).
C15_WaitIsMultiplierTimesPowerOfTwo ==
    /\ OneWaitPerLaterAttempt
    /\ \A k \in 2..(Len(waits) + 1) :
           LET raw == multiplier * Pow(2, k - 2)
               capped == IF raw > max_wait THEN max_wait ELSE raw
           IN  waits[k - 1] = IF capped < min_wait THEN min_wait ELSE capped

\* a policy on which the two formulas differ has slept twice
C15_Witness ==
    /\ Len(waits) = 2
    /\ min_wait = 0
    /\ multiplier = 1
    /\ max_wait = 3
    /\ waits = <<1, 2>>

\* the first j acquires that returned each asked for one token at tick 0, the
\* tick of construction
FirstCallsAtOnce(j) == \A h \in 1..j : grants[h].n = 1 /\ grants[h].called = 0

\* C16: on a fresh token bucket with the default burst_size, max_requests
\* acquire() calls made at once return without a sleep, and the next one made
\* at once sleeps exactly once, for time_window / max_requests (time_window
\* ticks), and returns no earlier than that.
C16_BurstThenOneIntervalWait ==
    tb_burst_size = tb_max_requests
        => \A j \in 1..Len(grants) :
               FirstCallsAtOnce(j)
                   => /\ j <= tb_max_requests
                          => grants[j].slept = <<>> /\ grants[j].at = 0
                      /\ j = tb_max_requests + 1
                          => /\ grants[j].slept = <<tb_time_window>>
                             /\ grants[j].at >= tb_time_window

\* two acquires went through at once and the third slept half a window
C16_Witness ==
    /\ tb_max_requests = 2 /\ tb_burst_size = 2 /\ tb_time_window = 2
    /\ Len(grants) = 3
    /\ FirstCallsAtOnce(3)
    /\ grants[3].slept = <<2>>

\* the tokens of the acquires a..b that returned
RECURSIVE Granted(_, _)
Granted(a, b) == IF a > b THEN 0 ELSE grants[a].n + Granted(a + 1, b)

\* C18: with concurrent callers the bucket never goes negative, and the
\* tokens granted between any two grants, both included, are at most
\* burst_size + t * max_requests / time_window for the time t between them
\* (in units: tokens * time_window <= burst_size * time_window + ticks).
C18_NeverOverAdmits ==
    /\ tb_tokens >= 0
    /\ \A a \in 1..Len(grants) : \A b \in a..Len(grants) :
           Granted(a, b) * tb_time_window
               <= tb_burst_size * tb_time_window + (grants[b].at - grants[a].at)

\* two tasks called at the same tick; one slept holding the lock, the other
\* waited for the lock and then slept too
C18_Witness ==
    \E a \in 1..Len(grants) : \E b \in (a + 1)..Len(grants) :
        /\ grants[a].called = grants[b].called
        /\ grants[a].slept # <<>>
        /\ grants[b].slept # <<>>

\* C17: sequential or concurrent, at most max_requests admissions fall in
\* any window of length time_window, the window taken half-open as the
\* limiter's own trailing window (now - time_window, now] is: the admission
\* that comes max_requests after another one is at least time_window later.
C17_AtMostMaxRequestsPerWindow ==
    \A j \in 1..Len(admitted) :
        /\ j + sw_max_requests <= Len(admitted)
               => admitted[j + sw_max_requests] - admitted[j] >= sw_time_window
        /\ Cardinality({h \in 1..Len(admitted) :
                            admitted[j] <= admitted[h]
                            /\ admitted[h] < admitted[j] + sw_time_window})
               <= sw_max_requests

\* two tasks asked at once of a limiter of one request per two ticks: the
\* second was admitted when the first request had left the window
C17_Witness ==
    /\ sw_max_requests = 1 /\ sw_time_window = 2
    /\ Len(admitted) = 2
    /\ admitted[1] = 0 /\ admitted[2] = 2
    /\ \A p \in Callers : spc[p] = "idle"

RateInRange == Leq(min_rate, current_rate) /\ Leq(current_rate, max_rate)

\* C19: in every state of the adaptive limiter, from construction on and
\* after any on_success and on_error calls, min_rate <= current_rate <=
\* max_rate.
C19_RateStaysWithinBounds == RateInRange

\* a rate within the bounds stays within them
C19_InRangeStaysInRange == [][RateInRange => RateInRange']_vars

\* C20: with max_entries >= 1, a get(k) that directly follows set(k, v),
\* less than ttl later (or with no ttl), returns v, whatever the cache held
\* before, the set having evicted an entry or replaced a value of k or not.
C20_SetThenGetReturnsValue ==
    (roundTrip # NoTrip /\ (ttl = NoTtl \/ roundTrip.age < ttl))
        => roundTrip.got = roundTrip.expected

\* a set on a full cache evicted another key and the get that followed,
\* later but within ttl, returned the value
C20_Witness ==
    /\ roundTrip # NoTrip
    /\ roundTrip.evicted
    /\ ttl # NoTtl /\ roundTrip.age > 0 /\ roundTrip.age < ttl
    /\ roundTrip.got = roundTrip.expected

\* a set replaced an older value of the key and the get returned the new one
C20_ReplacedWitness ==
    /\ roundTrip # NoTrip
    /\ roundTrip.replaced
    /\ roundTrip.got = roundTrip.expected

\* the step is a call of get, of set
GetStep == lastGet' # NoGet /\ mc_now' = mc_now
SetStep == lastSet' # NoSet /\ mc_now' = mc_now

InIndex(order, key) == \E j \in 1..Len(order) : order[j] = key

\* C21: with a ttl, a get of an entry older than ttl returns absent and
\* removes the entry from _cache and from _access_order; without a ttl, a get
\* of a cached key returns its value and removes nothing, whatever its age.
C21_StaleEntryIsNeverReturned ==
    [][GetStep =>
         LET k == lastGet'.key
         IN  k \in DOMAIN cache =>
                 IF ttl # NoTtl /\ mc_now - cache[k].timestamp > ttl
                   THEN /\ lastGet'.got = Absent
                        /\ k \notin DOMAIN cache'
                        /\ ~InIndex(access_order', k)
                   ELSE ttl = NoTtl =>
                        /\ lastGet'.got = cache[k].value
                        /\ DOMAIN cache' = DOMAIN cache]_vars

\* a get that came later than ttl after the set of its key returned absent
C21_Witness ==
    /\ ttl # NoTtl
    /\ roundTrip # NoTrip
    /\ roundTrip.age > ttl
    /\ lastGet.got = Absent
    /\ lastGet.key \notin DOMAIN cache

\* C22: a set of a new key into a cache holding max_entries entries evicts
\* exactly one entry, the one whose last successful get or set is the oldest;
\* a set of a key that is present evicts nothing.
C22_EvictsExactlyTheLeastRecentlyUsed ==
    [][SetStep =>
         LET k == lastSet'.key
         IN  /\ (k \notin DOMAIN cache /\ Cardinality(DOMAIN cache) = max_entries)
                 => /\ (DOMAIN cache) \ (DOMAIN cache') = {Head(recency)}
                    /\ DOMAIN cache' = ((DOMAIN cache) \ {Head(recency)}) \cup {k}
             /\ k \in DOMAIN cache => DOMAIN cache' = DOMAIN cache]_vars

\* a set has evicted one of the two entries of a full cache
C22_Witness ==
    /\ max_entries = 2
    /\ lastSet # NoSet
    /\ lastSet.evicted
    /\ Cardinality(DOMAIN cache) = 2

\* C23: after any calls, _access_order holds every cached key exactly once
\* and no other key, and _cache holds at most max_entries entries.
C23_IndexMatchesStore ==
    /\ Len(access_order) = Cardinality(DOMAIN cache)
    /\ {access_order[j] : j \in 1..Len(access_order)} = DOMAIN cache
    /\ Cardinality(DOMAIN cache) <= max_entries

\* a hit of get has moved its key to the end of the index of a full cache
C23_Witness ==
    /\ max_entries = 2
    /\ Len(access_order) = 2
    /\ lastGet # NoGet
    /\ lastGet.got # Absent
    /\ access_order[2] = lastGet.key
    /\ cache[access_order[1]].timestamp > cache[access_order[2]].timestamp

\* C8: once failure_threshold matching failures occurred with no success
\* between them, the breaker is open (and stays so until a call arrives), and
\* the first call that arrives after the last of these failures, before
\* recovery_timeout has elapsed, is rejected without func being invoked.
C8_TripsThenRejectsNextCall ==
    /\ (streak >= failure_threshold /\ ~calledSince) =>
           state = "open" /\ last_failure_time # NoTime
    /\ nextCall # "admitted"

C8_Witness ==
    /\ nextCall = "rejected"
    /\ state = "open"
    /\ streak = failure_threshold
    /\ failure_threshold > 1
    /\ \A p \in Callers : cpc[p] = "idle"

\* C9: no call is admitted to func while a probe is in flight: between the
\* open -> half_open transition and the probe's outcome, only the probe runs.
C9_OnlyTheProbeIsAdmitted ==
    \A p \in Callers : ~besideProbe[p]

\* C10: right after the probe returned the breaker is closed with the failure
\* count at 0, and right after the probe failed with an expected exception the
\* breaker is open with last_failure_time at the time of that failure.
C10_ProbeOutcomeDecidesState ==
    /\ probeEnded = "success" => state = "closed" /\ failure_count = 0
    /\ probeEnded = "failure" => state = "open" /\ last_failure_time = now

\* ------------------------------------------------------------------------
\* PipelineExecutor: the claims
\* ------------------------------------------------------------------------
Finished == pc = "done" /\ outcome.status # "skipped"
RaisedPipelineError ==
    /\ outcome.status = "raised"
    /\ outcome.error.kind = "PipelineException"
AllClosedOnce ==
    /\ connector # None => connectorCloseCalls = 1
    /\ \A k \in constructed : closeCalls[k] = 1
UnknownTag ==
    \/ connectorCfg \notin CONNECTORS
    \/ transformerCfg \notin TRANSFORMERS
    \/ \E k \in SinkIdx : sinkCfgs[k] \notin SINKS
NoIO ==
    /\ fetchCalls = 0
    /\ writeLog = <<>>
    /\ \A k \in SinkIdx : writeCalls[k] = 0

\* C1: when a run that was not skipped has ended, whatever stage it failed at,
\* and with no close() raising, close was called exactly once on the connector
\* if it was constructed and exactly once on every sink whose constructor
\* returned.
C1_ConstructedResourcesClosedOnce ==
    (Finished /\ closeRaised = 0) => AllClosedOnce

\* C2: when a close() raised during cleanup, every constructed resource was
\* still closed once and execute ends as the try/except part decided: with the
\* PipelineException of the stage failure, or returning normally.
C2_CloseErrorNeitherMasksNorStopsCleanup ==
    (Finished /\ closeRaised > 0) =>
        /\ AllClosedOnce
        /\ outcome.error = stageExc
        /\ outcome.status = (IF stageExc = NoExc THEN "returned" ELSE "raised")

\* C3: when the write on sink k is the first to fail, the writes made are
\* exactly those of sinks 1..k, once each and in declaration order, the sinks
\* before k stay written, and execute raises PipelineException.
C3_FirstFailingWriteStopsTheRest ==
    (Finished /\ failedWrite # 0) =>
        /\ writeLog = [j \in 1..failedWrite |-> j]
        /\ \A j \in SinkIdx : writeCalls[j] = (IF j <= failedWrite THEN 1 ELSE 0)
        /\ written = 1..(failedWrite - 1)
        /\ RaisedPipelineError

\* C3, the part about the writes alone (what holds of the code)
C3_WritesUpToFirstFailure ==
    (Finished /\ failedWrite # 0) =>
        /\ writeLog = [j \in 1..failedWrite |-> j]
        /\ \A j \in SinkIdx : writeCalls[j] = (IF j <= failedWrite THEN 1 ELSE 0)
        /\ written = 1..(failedWrite - 1)

\* C4: when an error was raised by stage resolution, fetch, transform or a
\* write, execute ends by raising a PipelineException that names the pipeline
\* and has that error as its cause.
C4_StageFailureRaisesPipelineError ==
    (Finished /\ rootCause # None) =>
        /\ RaisedPipelineError
        /\ outcome.error.pipeline = name
        /\ outcome.error.cause = rootCause

\* C4, restricted to the runs in which no close() raised (what holds of the code)
C4_WhenNoCloseRaises ==
    (Finished /\ rootCause # None /\ closeRaised = 0) =>
        /\ RaisedPipelineError
        /\ outcome.error.pipeline = name
        /\ outcome.error.cause = rootCause

\* C5: with enabled = false nothing is constructed, no fetch, transform, write
\* or close is performed, and execute returns without an error.
C5_DisabledRunDoesNothing ==
    ~enabled =>
        /\ pc \in {"start", "done"}
        /\ connector = None /\ transformer = None
        /\ built = <<>> /\ sinks = <<>> /\ constructed = {}
        /\ NoIO /\ transformCalls = 0
        /\ connectorCloseCalls = 0
        /\ \A k \in SinkIdx : closeCalls[k] = 0
        /\ exc = NoExc
        /\ pc = "done" => outcome = [status |-> "skipped", error |-> NoExc]

C5_Witness == ~enabled /\ pc = "done" /\ Len(sinkCfgs) > 0

\* C6: when the type-tag of the connector, the transformer or any sink is not
\* registered, no fetch and no write is ever performed in the run and execute
\* ends by raising PipelineException.
C6_UnknownTagFailsBeforeIO ==
    (enabled /\ UnknownTag) =>
        /\ NoIO
        /\ pc = "done" => RaisedPipelineError /\ outcome.error.pipeline = name

C6_Witness ==
    /\ enabled /\ pc = "done"
    /\ connector # None /\ transformer # None /\ constructed # {}
    /\ \E k \in SinkIdx : sinkCfgs[k] \notin SINKS

\* C7: fetch, transform and each write are called at most once; transform is
\* called only after the one fetch returned and with nothing in flight; the
\* first write is called only after the one transform returned; no two stage
\* operations are in flight together; and the run completes only with one
\* fetch, one transform and one successful write per configured sink, in
\* declaration order.
C7_StagesRunOnceInSequence ==
    /\ fetchCalls <= 1 /\ transformCalls <= 1
    /\ \A k \in SinkIdx : writeCalls[k] <= 1
    /\ Cardinality(active) <= 1
    /\ pc = "transform" => active = {}
    /\ transformCalls > 0 => fetchCalls = 1 /\ raw_data # None /\ "fetch" \notin active
    /\ writeLog # <<>> => transformCalls = 1 /\ raw_data = "dict"
    /\ pc = "in_write" => active = {"write"} /\ written = 1..(i - 1)
    /\ completed =>
          /\ fetchCalls = 1 /\ transformCalls = 1
          /\ writeLog = [j \in SinkIdx |-> j]
          /\ written = SinkIdx
          /\ active = {}

C7_Witness ==
    /\ pc = "done" /\ outcome.status = "returned"
    /\ completed /\ Len(sinkCfgs) >= 2


\* the request of the last get, as a (url, parameter mapping) pair
LastRequest == <<rc_last.url, Mapping(rc_last.params)>>

\* the last get asked for a response that was set and had not outlived the ttl
AskedForLiveResponse ==
    /\ rc_last.op = "get"
    /\ LastRequest \in DOMAIN logical
    /\ (rc_ttl = NoTtl \/ rc_last.at - logical[LastRequest].at <= rc_ttl)

\* C24: a request with the same url and the same parameter mapping has the same
\* key whatever the order in which the parameters were supplied, and a get
\* returns the response that the last set stored for it (within the ttl)
C24_SameMappingSameKey ==
    AskedForLiveResponse =>
        /\ make_key(rc_last.url, rc_last.params)
               = make_key(rc_last.url, logical[LastRequest].params)
        /\ rc_last.got = logical[LastRequest].response

\* C24 witness: a get found the response stored under the other order of the
\* same two parameters
C24_Witness ==
    /\ AskedForLiveResponse
    /\ Len(rc_last.params) = 2
    /\ logical[LastRequest].params # rc_last.params
    /\ rc_last.got = logical[LastRequest].response


\* C25: a get that finds a corrupt or unreadable file (content that cannot be
\* decoded, decodable content that is not a stored entry, a file that cannot
\* be opened) returns absent and raises no error
C25_CorruptFileIsAMiss ==
    (dc_last.op = "get" /\ dc_last.found \in CorruptKinds) =>
        (dc_last.outcome = "returned" /\ dc_last.got = Absent)


\* the fields that the message of the error names
NamedFields == {validated.fields[j] : j \in 1..Len(validated.fields)}

\* the pipeline has the four fields and its sinks is a list that is not empty
WellFormed ==
    /\ RequiredKeys \subseteq pipeline.keys
    /\ pipeline.sinks.type = "list"
    /\ pipeline.sinks.len > 0

\* C26: validate_pipeline raises the configuration error naming every required
\* field that is missing, raises it when sinks is empty or is not a list, and
\* returns exactly when the four fields are present and sinks is a list that
\* is not empty
C26_ValidateNamesEveryMissingField ==
    validated # NotValidated =>
        /\ (validated.outcome = "returned") <=> WellFormed
        /\ ~WellFormed => validated.outcome = "ConfigurationException"
        /\ (RequiredKeys \ pipeline.keys # {}) =>
               NamedFields = RequiredKeys \ pipeline.keys

\* C26 witness: a pipeline without two of the fields was rejected
C26_Witness ==
    /\ validated.outcome = "ConfigurationException"
    /\ Cardinality(RequiredKeys \ pipeline.keys) = 2

\* C26 witness: a pipeline with the four fields and an empty list was rejected
C26_EmptySinksWitness ==
    /\ validated.outcome = "ConfigurationException"
    /\ RequiredKeys \subseteq pipeline.keys
    /\ pipeline.sinks = [type |-> "list", len |-> 0]


\* the leaves of the input: each with the key that joins its path with "_"
InputLeaves ==
    LET d == jn_data.items
    IN  {[key |-> d[j].key, value |-> d[j].value] : j \in {x \in 1..Len(d) : d[x].leaf}}
          \cup UNION {{[key |-> d[j].key \o "_" \o d[j].children[n].key,
                        value |-> d[j].children[n].value] :
                           n \in 1..Len(d[j].children)} :
                      j \in {x \in 1..Len(d) : ~d[x].leaf}}

\* the value of a key of the mapping that transform returned
ValueOf(key) ==
    LET d == jn_result.normalized
    IN  d[CHOOSE j \in 1..Len(d) : d[j].key = key].value

Flattened == jn_result.outcome = "returned" /\ jn_config.flatten

\* C27: with flatten set, every leaf of the input is in the output under the
\* key that joins its path with "_", with its value unchanged, and the output
\* has the key _ingested_at
C27_EveryLeafUnderItsJoinedKey ==
    Flattened =>
        /\ \A l \in InputLeaves :
               /\ HasKey(jn_result.normalized, l.key)
               /\ ValueOf(l.key) = l.value
        /\ HasKey(jn_result.normalized, "_ingested_at")

\* the scenario of the specification: {"a": {"a": 1, "b": 2}} gives a_a, a_b and
\* the timestamp
C27_NestedScenarioReached ==
    /\ Flattened
    /\ jn_data.items = <<Nested("a", <<Leaf("a", 1), Leaf("b", 2)>>)>>
    /\ jn_config.timestamp_field = None
    /\ jn_result.normalized
           = <<Leaf("a_a", 1), Leaf("a_b", 2), Leaf("_ingested_at", Timestamp)>>


\* the token counts of the calls in progress and of the calls that returned
Admissible ==
    /\ \A p \in Callers : tpc[p] # "idle" => need[p] <= tb_burst_size
    /\ \A j \in 1..Len(grants) : grants[j].n <= tb_burst_size

\* C29: an acquire of more tokens than burst_size raises ValueError at once,
\* without suspending, without taking the lock and without changing the token
\* count or the time of the last refill; an acquire of at most burst_size
\* tokens never raises
C29_TooManyTokensRaisesAtOnce ==
    [][/\ Len(tbRaised') > Len(tbRaised) =>
              /\ tbRaised'[Len(tbRaised')] > tb_burst_size
              /\ UNCHANGED <<tb_tokens, tb_last_update, tb_lock, tb_waiters, tpc>>
       /\ Len(tbRaised') = Len(tbRaised) => Admissible']_vars

\* C29 witness: an acquire raised while another caller slept holding the lock
C29_Witness ==
    /\ tbRaised # <<>>
    /\ tb_lock # 0
    /\ \E p \in Callers : tpc[p] = "sleeping"

C28_EveryAcquireReturns ==
    \A p \in Callers : InAcquire(p) ~> ~InAcquire(p)

\* C28 witness: one caller sleeps holding the lock of the limiter, another
\* waits for the lock, and the circuit breaker is open
C28_Witness ==
    /\ state = "open"
    /\ \E p, q \in Callers :
           \/ tpc[p] = "sleeping" /\ tpc[q] = "waiting"
           \/ spc[p] = "sleeping" /\ spc[q] = "waiting"
           \/ apc[p] = "sleeping" /\ apc[q] = "waiting"


\* the keys of both indexes other than key, in the order of the first index
Others(order, other, key) ==
    SelectSeq(order, LAMBDA k : k # key /\ InIndex(other, k))

\* C31: a get that hits and a set leave their key last in the index and keep
\* the order of the other keys; a get that misses or finds an expired entry
\* and a delete leave the remaining keys in their order, and the index as it
\* was when the key was not cached
C31_UseMovesKeyLastAndKeepsTheRest ==
    [][/\ (GetStep /\ lastGet'.got # Absent) =>
              /\ access_order'[Len(access_order')] = lastGet'.key
              /\ Others(access_order', access_order, lastGet'.key)
                     = SelectSeq(access_order, LAMBDA k : k # lastGet'.key)
       /\ SetStep =>
              /\ access_order'[Len(access_order')] = lastSet'.key
              /\ Others(access_order', access_order, lastSet'.key)
                     = Others(access_order, access_order', lastSet'.key)
       /\ (GetStep /\ lastGet'.got = Absent) =>
              access_order' = SelectSeq(access_order, LAMBDA k : k # lastGet'.key)
       /\ (~GetStep /\ ~SetStep /\ cache' = cache) => access_order' = access_order]_vars

\* C31 witness: a get has just hit a key that has two other keys before it
C31_Witness ==
    /\ lastGet # NoGet
    /\ lastGet.got # Absent
    /\ Len(access_order) = 3
    /\ access_order[3] = lastGet.key


C32_NotRetriedWitness ==
    /\ rresult.status = "raised"
    /\ ~Matches(rresult.error.kind, retry_on)
    /\ Len(attemptLog) < max_attempts


\* C33: the disk backend and the memory backend, with the same ttl and the
\* same clock, return the same result for every call of the same sequence of
\* get, set, delete and clear over fewer than max_entries keys
C33_BackendsReturnTheSame == both.memory = both.disk

\* C33: the same for sequences in which every value set is one that json
\* writes and reads back equal
C33_SameForJsonValues == both.plain => both.memory = both.disk

\* C33: a get of a key whose last set stored a value of Values, returned by
\* both backends, after a set of another kind of value elsewhere
C33_JsonValuesCompared ==
    /\ both.plain /\ both.op = "get" /\ both.memory.got \in Values


\* C34: two consecutive returns of acquire of the adaptive limiter are at
\* least 1/current_rate seconds apart, current_rate being the rate that the
\* later acquire read at line 194, whether one task or several call acquire
C34_AdmissionsAreOneIntervalApart ==
    adAdmitted.prev # NoTime =>
        (adAdmitted.at - adAdmitted.prev) * adAdmitted.rate[1] >= adAdmitted.rate[2]

\* C34 witness: a task that waited for the lock while another one slept in
\* acquire was adAdmitted after a sleep of its own, and the rate changed while
\* it slept
C34_Witness ==
    /\ adAdmitted.prev # NoTime
    /\ adAdmitted.meanwhile
    /\ adAdmitted.rate # current_rate
    /\ adAdmitted.at > adAdmitted.prev
    /\ \E p \in Callers : apc[p] = "waiting"

\* C34 witness: an interval longer than a second, at a rate below one request
\* per second
C34_SlowRateWitness ==
    /\ adAdmitted.prev # NoTime
    /\ adAdmitted.rate[2] > adAdmitted.rate[1]
    /\ adAdmitted.at - adAdmitted.prev > 1


\* how a run that has ended ended: Skipped (returned at line 36), Completed
\* (returned after line 58) or Failed (raised the PipelineException of line
\* 62); anything else is none of the three
Ending ==
    IF outcome.status = "skipped" THEN "Skipped"
    ELSE IF outcome.status = "returned" THEN "Completed"
    ELSE IF RaisedPipelineError THEN "Failed"
    ELSE "Other"

\* the run ended as one of the three, each only from where it may
EndsWhereItMay ==
    pc = "done" =>
        /\ Ending \in {"Skipped", "Completed", "Failed"}
        /\ Ending = "Skipped" => ~enabled
        /\ Ending = "Completed" =>
               /\ completed /\ rootCause = None
               /\ fetchCalls = 1 /\ transformCalls = 1
               /\ written = 1..Len(sinkCfgs)
        /\ outcome.status = "raised" => rootCause # None /\ ~completed

\* once a stage has failed no fetch, transform or write is called
NoStageAfterFailure ==
    rootCause # None =>
        /\ fetchCalls' = fetchCalls
        /\ transformCalls' = transformCalls
        /\ writeCalls' = writeCalls

\* C35: every run of execute ends Skipped, Completed or Failed: Skipped only
\* with enabled false, Completed only when stage resolution, fetch, transform
\* and every write succeeded, with an error only from stage resolution, fetch,
\* transform or a write; after the first stage failure no fetch, transform or
\* write is called in the run
C35_RunEndsSkippedCompletedOrFailed ==
    [](EndsWhereItMay) /\ [][NoStageAfterFailure]_vars

\* C35, for the runs in which no close() raised (what holds of the code)
C35_WhenNoCloseRaises ==
    []((closeRaised = 0) => EndsWhereItMay) /\ [][NoStageAfterFailure]_vars

\* C35: a run ended Failed at the write of its second sink, with every close()
\* returning
C35_FailedAtSecondWrite ==
    /\ pc = "done" /\ Ending = "Failed" /\ closeRaised = 0
    /\ failedWrite = 2 /\ written = {1}


\* task p leaves the body of its `async with limiter`
ScopeExit(p) == scope[p] = "inside" /\ scope'[p] = "none"

\* task p enters the body of its `async with limiter`
ScopeEntry(p) == scope[p] # "inside" /\ scope'[p] = "inside"

\* C36: with the adaptive limiter used as `async with limiter`, the body is
\* entered when acquire has returned to the task; when the body returns
\* on_success is called once and on_error is not, when it raises on_error is
\* called once and on_success is not, and current_rate changes by that one
\* adjustment
C36_ScopeExitAdjustsTheRateOnce ==
    [][\A p \in Callers :
          /\ ScopeEntry(p) =>
                 /\ adAdmitted'.at = ad_now
                 /\ ad_last_request' = ad_now
                 /\ apc'[p] = "idle"
          /\ ScopeExit(p) =>
                 /\ lastExit'.by = p
                 /\ lastExit'.calls = (IF lastExit'.exc_val = None
                                         THEN <<"on_success">> ELSE <<"on_error">>)
                 /\ current_rate' = (IF lastExit'.exc_val = None
                                       THEN Increased ELSE Decreased)
                 /\ lastExit'.before = current_rate
                 /\ lastExit'.after = current_rate']_vars

\* C36 witness: a body raised and the rate went down, while the other task
\* was in its own body
C36_Witness ==
    /\ lastExit.exc_val # None
    /\ lastExit.calls = <<"on_error">>
    /\ Leq(lastExit.after, lastExit.before) /\ lastExit.after # lastExit.before
    /\ current_rate = lastExit.after
    /\ scope[lastExit.by] = "none"
    /\ \E p \in Callers : p # lastExit.by /\ scope[p] = "inside"

\* C36 witness: a body returned and the rate went up
C36_SuccessWitness ==
    /\ lastExit.by # 0 /\ lastExit.exc_val = None
    /\ lastExit.calls = <<"on_success">>
    /\ lastExit.after # lastExit.before /\ Leq(lastExit.before, lastExit.after)


\* C37: transform leaves the Record passed to it as it was, with flatten
\* enabled or disabled; the timestamp is in the returned Record only
C37_TransformLeavesItsArgument == jn_object = jn_data

\* C37, with flatten enabled (what holds of the code): the argument is as it
\* was and the returned mapping carries the timestamp
C37_WhenFlattening ==
    (jn_config.flatten /\ jn_result.outcome = "returned") =>
        /\ jn_object = jn_data
        /\ HasKey(jn_result.normalized, "_ingested_at")

\* C37: a nested mapping without the key _ingested_at was flattened
C37_FlattenedReached ==
    /\ jn_config.flatten /\ jn_result.outcome = "returned"
    /\ ~HasKey(jn_data.items, "_ingested_at")
    /\ \E j \in 1..Len(jn_data.items) : ~jn_data.items[j].leaf


\* C38: with failure_threshold >= 1 and calls that do not overlap, the state
\* is closed, open or half_open; an open breaker has at least
\* failure_threshold failures counted and a last failure time, and a closed
\* one has fewer failures counted than failure_threshold
C38_StateMatchesFailureCount ==
    /\ state \in {"closed", "open", "half_open"}
    /\ state = "open" =>
           /\ failure_count >= failure_threshold
           /\ last_failure_time # NoTime
    /\ state = "closed" => failure_count < failure_threshold

\* C38 witness: a probe has just failed and the breaker is open again, with
\* more failures counted than failure_threshold
C38_Witness ==
    /\ state = "open"
    /\ callEnd.how = "raised_expected" /\ callEnd.role = "probe"
    /\ failure_count > failure_threshold
    /\ \A q \in Callers : cpc[q] = "idle"

\* C38 witness: a closed breaker one failure short of failure_threshold
C38_ClosedWitness ==
    /\ state = "closed" /\ failure_count > 0
    /\ failure_count = failure_threshold - 1
    /\ callEnd.how = "raised_expected"

\* the call of task p ends at this step with an exception of func that is no
\* expected_exception
EndsRaisingOther(p) ==
    /\ cpc[p] = "in_func" /\ cpc'[p] = "idle"
    /\ callEnd'.how = "raised_other" /\ callEnd'.by = p

\* the call of task p is rejected at this step
RejectedStep(p) ==
    /\ callEnd'.how = "rejected" /\ callEnd'.by = p
    /\ cpc[p] = "idle" /\ cpc' = cpc /\ now' = now

\* the call of task p is let through to func at this step
AdmittedStep(p) == cpc[p] = "idle" /\ cpc'[p] = "in_func"

\* C39: an exception of func that does not match expected_exception leaves
\* the state, the failure count and the last failure time as they were, so a
\* probe that ends with one leaves the breaker half_open; and a call that
\* finds the breaker half_open is never rejected
C39_UnexpectedErrorLeavesTheBreaker ==
    [][\A p \in Callers :
          /\ EndsRaisingOther(p) =>
                 /\ state' = state
                 /\ failure_count' = failure_count
                 /\ last_failure_time' = last_failure_time
          /\ RejectedStep(p) => state # "half_open"]_vars

\* C39 witness: the probe has just ended with an exception that is no
\* expected_exception, and the breaker is half_open with no call in flight
C39_Witness ==
    /\ callEnd.how = "raised_other" /\ callEnd.role = "probe"
    /\ state = "half_open"
    /\ \A q \in Callers : cpc[q] = "idle"
    /\ failure_count >= failure_threshold

\* C39 witness: a call was let through by the half_open breaker with no probe
\* in flight
C39_LaterCallWitness ==
    /\ state = "half_open"
    /\ \E p \in Callers :
           /\ cpc[p] = "in_func" /\ role[p] = "half_open" /\ ~besideProbe[p]
           /\ \A q \in Callers \ {p} : cpc[q] = "idle"

\* C40: a call rejected by the open breaker leaves the failure count, the
\* last failure time and the state as they were; a call that finds the
\* breaker open is rejected before recovery_timeout has passed since func last
\* raised an expected_exception and let through from that instant on,
\* whatever the number of calls rejected in between
C40_RejectionPostponesNothing ==
    [][\A p \in Callers :
          /\ RejectedStep(p) =>
                 /\ state = "open" /\ state' = state
                 /\ failure_count' = failure_count
                 /\ last_failure_time' = last_failure_time
                 /\ sinceFailure.at # NoTime
                 /\ (now - sinceFailure.at) < recovery_timeout
          /\ (AdmittedStep(p) /\ state = "open") =>
                 /\ sinceFailure.at # NoTime
                 /\ (now - sinceFailure.at) >= recovery_timeout]_vars

\* C40 witness: after two or more rejected calls the probe is let through at
\* the instant last failure + recovery_timeout
C40_Witness ==
    /\ sinceFailure.rejected = 2
    /\ recovery_timeout > 0
    /\ now = sinceFailure.at + recovery_timeout
    /\ state = "half_open"
    /\ \E p \in Callers : cpc[p] = "in_func" /\ role[p] = "probe"

====
